---------------------------- MODULE Spec2Model ----------------------------
(***************************************************************************)
(* A model of the reconciliation and validation engines of                 *)
(* Recs_Valid_Checks_Tool (src/recon_engine.py, src/validation_engine.py). *)
(*                                                                         *)
(* Conventions of the translation                                          *)
(*   - A scalar cell value is a tagged record: Null (None / NaN),          *)
(*     Num(n) (a number) or Str(s) (text).  Text that the code inspects    *)
(*     character by character is a tuple of one-character strings.         *)
(*   - A number is an exact rational; the float arithmetic of the          *)
(*     comparator and of the averages is modelled without rounding.        *)
(*   - A DataFrame is [columns, rows]: the ordered column names and the    *)
(*     ordered rows, each row a function from column name to value.        *)
(*   - A rule is a function from field name to value; a field the rule     *)
(*     does not carry is absent from its domain (dict.get default).        *)
(*   - A raised Python exception is the outcome [raised |-> TRUE].         *)
(***************************************************************************)
EXTENDS Integers, Sequences, FiniteSets, TLC

VARIABLES
    engine,        \* which engine instance this is: "recon" or "valid"
    data_sources,  \* self.data_sources: ordered <<name, frame>> registrations
    summary,       \* self.summary (counters and the results list)
    rules,         \* the rules run_all_rules has iterated over so far
    returned,      \* what the latest execute_rule call returned, per rule
    pc,            \* position of the run: "load", "run", "done", "raised"
    cmp            \* harness of the pure functions (comparator, key sets)

vars == <<engine, data_sources, summary, rules, returned, pc, cmp>>

---------------------------------------------------------------------------
(* Scalar values                                                           *)

Null == [t |-> "null"]
Str(s) == [t |-> "str", s |-> s]     \* text held as a tuple of characters
Txt(a) == [t |-> "txt", a |-> a]     \* text held as one atom (names, sentinels)
Bool(b) == [t |-> "bool", b |-> b]

\* A number is an exact rational n/d in lowest terms, d > 0.
RECURSIVE GCD(_, _)
GCD(a, b) == IF b = 0 THEN a ELSE GCD(b, a % b)

Abs(x) == IF x < 0 THEN -x ELSE x

Q(n, d) == LET g == GCD(Abs(n), d)
           IN [t |-> "num", n |-> n \div g, d |-> d \div g]
Num(n) == [t |-> "num", n |-> n, d |-> 1]

QSub(a, b) == Q(a.n * b.d - b.n * a.d, a.d * b.d)
QAdd(a, b) == Q(a.n * b.d + b.n * a.d, a.d * b.d)
QMul(a, b) == Q(a.n * b.n, a.d * b.d)
QAbs(a) == [t |-> "num", n |-> Abs(a.n), d |-> a.d]
\* a / b for b # 0
QDiv(a, b) == IF b.n < 0 THEN Q(-(a.n * b.d), a.d * (-b.n))
              ELSE Q(a.n * b.d, a.d * b.n)
QLeq(a, b) == a.n * b.d <= b.n * a.d
QLess(a, b) == a.n * b.d < b.n * a.d

\* pd.isna / pd.notna on a scalar
isna(v) == v.t = "null"
\* Mutation of notna: the guard lets every value through.
notna_Always(v) == TRUE

notna(v) == ~isna(v)

---------------------------------------------------------------------------
(* Text: tuples of one-character strings                                   *)

DigitChars == <<"0", "1", "2", "3", "4", "5", "6", "7", "8", "9">>

IsDigit(c) == \E i \in 1..10 : DigitChars[i] = c
DigitVal(c) == (CHOOSE i \in 1..10 : DigitChars[i] = c) - 1

RECURSIVE NatStr(_)
NatStr(n) == IF n < 10 THEN <<DigitChars[n + 1]>>
             ELSE NatStr(n \div 10) \o <<DigitChars[(n % 10) + 1]>>

\* str(n) of an integer
IntStr(n) == IF n < 0 THEN <<"-">> \o NatStr(-n) ELSE NatStr(n)

RECURSIVE LStrip(_)
LStrip(s) == IF s # <<>> /\ Head(s) = " " THEN LStrip(Tail(s)) ELSE s

RECURSIVE RStrip(_)
RStrip(s) == IF s # <<>> /\ s[Len(s)] = " "
             THEN RStrip(SubSeq(s, 1, Len(s) - 1)) ELSE s

\* str.strip()
Strip(s) == RStrip(LStrip(s))

RECURSIVE DigitsVal(_)
DigitsVal(s) == IF s = <<>> THEN 0
                ELSE 10 * DigitsVal(SubSeq(s, 1, Len(s) - 1)) + DigitVal(s[Len(s)])

AllDigits(s) == s # <<>> /\ \A i \in 1..Len(s) : IsDigit(s[i])

\* float(text): surrounding blanks and one sign are accepted; anything that
\* is not a decimal integer literal raises ValueError (ok = FALSE).
ParseFloat(s) ==
    LET b == Strip(s)
        signed == b # <<>> /\ (Head(b) = "-" \/ Head(b) = "+")
        d == IF signed THEN Tail(b) ELSE b
    IN IF AllDigits(d)
       THEN [ok |-> TRUE,
             q |-> Num(IF signed /\ Head(b) = "-" THEN -DigitsVal(d)
                       ELSE DigitsVal(d))]
       ELSE [ok |-> FALSE, q |-> Num(0)]

\* str(value).  A number that is not whole is written n/d: the model keeps
\* such texts apart from each other and from every integer literal.
ToStr(v) == CASE v.t = "num" -> IF v.d = 1 THEN IntStr(v.n)
                                ELSE IntStr(v.n) \o <<"/">> \o IntStr(v.d)
              [] v.t = "str" -> v.s
              [] OTHER -> <<"n", "a", "n">>

\* float(value)
ToFloat(v) == CASE v.t = "num" -> [ok |-> TRUE, q |-> v]
                [] v.t = "str" -> ParseFloat(v.s)
                [] OTHER -> [ok |-> FALSE, q |-> Num(0)]

---------------------------------------------------------------------------
(* ValueComparator: ReconciliationEngine._compare_values                   *)

\* The "except (ValueError, TypeError)" branch: trimmed string comparison.
StringCompare(val1, val2) ==
    LET str1 == Strip(ToStr(val1))
        str2 == Strip(ToStr(val2))
    IN [match |-> str1 = str2,
        diff |-> IF str1 # str2 THEN Txt("String mismatch") ELSE Num(0)]

\* Mutation of PctDiff: the division by the base is left out.
PctDiff_NoBase(diff, num1) == QMul(diff, Num(100))

\* pct_diff = (diff / abs(num1)) * 100, for num1 # 0
PctDiff(diff, num1) == QMul(QDiv(diff, QAbs(num1)), Num(100))

\* Mutation of NumericCompare: the difference keeps its sign.
NumericCompare_Signed(num1, num2, tolerance, tolerance_type, val1, val2) ==
    IF tolerance # <<>> /\ tolerance_type # "" /\ ParseFloat(tolerance).ok
    THEN [match |-> QLeq(QSub(num1, num2), ParseFloat(tolerance).q),
          diff |-> QSub(num1, num2)]
    ELSE [match |-> num1 = num2, diff |-> QSub(num1, num2)]

\* Mutation of NumericCompare: an absolute or days difference equal to the
\* tolerance does not match.
NumericCompare_Strict(num1, num2, tolerance, tolerance_type, val1, val2) ==
    IF tolerance # <<>> /\ tolerance_type \in {"absolute", "days"}
       /\ ParseFloat(tolerance).ok
    THEN [match |-> QLess(QAbs(QSub(num1, num2)), ParseFloat(tolerance).q),
          diff |-> QAbs(QSub(num1, num2))]
    ELSE [match |-> num1 = num2, diff |-> QAbs(QSub(num1, num2))]

\* The "try" branch once float(val1) and float(val2) have succeeded.
\* tolerance is text, tolerance_type a string; each is truthy when non-empty.
NumericCompare(num1, num2, tolerance, tolerance_type, val1, val2) ==
    LET diff == QAbs(QSub(num1, num2))
        exact == [match |-> num1 = num2, diff |-> diff]
    IN IF tolerance # <<>> /\ tolerance_type # ""
       THEN LET tol == ParseFloat(tolerance)
            IN IF ~tol.ok
               THEN StringCompare(val1, val2)   \* float(tolerance) raised
               ELSE CASE tolerance_type = "percentage" ->
                           IF num1 # Num(0)
                           THEN [match |-> QLeq(PctDiff(diff, num1), tol.q),
                                 diff |-> diff]
                           ELSE [match |-> diff = Num(0), diff |-> diff]
                      [] tolerance_type = "absolute" ->
                           [match |-> QLeq(diff, tol.q), diff |-> diff]
                      [] tolerance_type = "days" ->
                           [match |-> QLeq(diff, tol.q), diff |-> diff]
                      [] OTHER -> exact
       ELSE exact

\* Mutation of _compare_values: the two null rules are left out.
_compare_values_NoNullRule(val1, val2, tolerance, tolerance_type) ==
    StringCompare(val1, val2)

_compare_values(val1, val2, tolerance, tolerance_type) ==
    IF isna(val1) /\ isna(val2) THEN [match |-> TRUE, diff |-> Num(0)]
    ELSE IF isna(val1) \/ isna(val2)
    THEN [match |-> FALSE, diff |-> Txt("NULL mismatch")]
    ELSE LET f1 == ToFloat(val1)
             f2 == ToFloat(val2)
         IN IF f1.ok /\ f2.ok
            THEN NumericCompare(f1.q, f2.q, tolerance, tolerance_type, val1, val2)
            ELSE StringCompare(val1, val2)

---------------------------------------------------------------------------
(* Text operations on character tuples                                     *)

UpperChars == <<"A", "B", "C", "D", "E", "F", "G", "H", "I", "J", "K", "L", "M",
                "N", "O", "P", "Q", "R", "S", "T", "U", "V", "W", "X", "Y", "Z">>
LowerChars == <<"a", "b", "c", "d", "e", "f", "g", "h", "i", "j", "k", "l", "m",
                "n", "o", "p", "q", "r", "s", "t", "u", "v", "w", "x", "y", "z">>

LowerChar(c) == IF \E i \in 1..26 : UpperChars[i] = c
                THEN LowerChars[CHOOSE i \in 1..26 : UpperChars[i] = c]
                ELSE c

\* str.lower()
LowerStr(s) == [i \in 1..Len(s) |-> LowerChar(s[i])]

\* s.startswith(p, at i)
MatchAt(s, p, i) == i + Len(p) - 1 <= Len(s)
                    /\ \A k \in 1..Len(p) : s[i + k - 1] = p[k]

\* "needle in hay" on str
Contains(hay, needle) == \E i \in 1..(Len(hay) + 1) : MatchAt(hay, needle, i)

\* str.replace(old, ""), old non-empty: occurrences are removed left to right
RECURSIVE Remove(_, _)
Remove(s, old) ==
    IF s = <<>> THEN <<>>
    ELSE IF MatchAt(s, old, 1)
    THEN Remove(SubSeq(s, Len(old) + 1, Len(s)), old)
    ELSE <<Head(s)>> \o Remove(Tail(s), old)

DotCsv == <<".", "c", "s", "v">>
Underscore == <<"_">>

\* Mutation of SetToSeq: the set is not iterated over.
SetToSeq_Empty(S) == <<>>

\* An arbitrary but fixed enumeration of a finite set: the iteration order of
\* a Python set, which a process fixes but the language does not specify.
SetToSeq(S) == CHOOSE f \in [1..Cardinality(S) -> S] :
                   \A i, j \in 1..Cardinality(S) : i # j => f[i] # f[j]

RECURSIVE Flatten(_)
Flatten(ss) == IF ss = <<>> THEN <<>> ELSE Head(ss) \o Flatten(Tail(ss))

---------------------------------------------------------------------------
(* Rules and DataFrames                                                    *)

\* rule.get(field, default)
Get(rule, field, default) == IF field \in DOMAIN rule THEN rule[field] ELSE default

\* Python truthiness of a raw cell: None, "" and 0 are falsy; NaN is truthy.
\* A blank spreadsheet cell is read as NaN, which is the Null met here.
Truthy(v) == CASE v.t = "str" -> v.s # <<>>
               [] v.t = "txt" -> v.a # ""
               [] v.t = "num" -> v.n # 0
               [] v.t = "bool" -> v.b
               [] OTHER -> TRUE

\* str(raw) for a field whose text is an atom
AtomStr(v) == CASE v.t = "txt" -> v.a
                [] v.t = "bool" -> IF v.b THEN "True" ELSE "False"
                [] v.t = "num" -> ToString(v.n)
                [] OTHER -> "nan"

\* str.upper() / str.lower() on the atoms a rule sheet carries
UpperAtom(a) == CASE a \in {"true", "True", "TRUE"} -> "TRUE"
                  [] a \in {"false", "False", "FALSE"} -> "FALSE"
                  [] a = "nan" -> "NAN"
                  [] OTHER -> a

LowerAtom(a) == CASE a = "KEY_MATCH" -> "key_match"
                  [] a = "Value_Equals" -> "value_equals"
                  [] a = "NOT_NULL" -> "not_null"
                  [] a = "Percentage" -> "percentage"
                  [] a = "ABSOLUTE" -> "absolute"
                  [] OTHER -> a

\* str(rule.get(field, "") or "") for a column reference
ColRef(rule, field) ==
    LET raw == Get(rule, field, Txt(""))
    IN IF Truthy(raw) THEN AtomStr(raw) ELSE ""

\* str(rule.get(field, "") or "").replace(".csv", "") for a source reference
SourceRef(rule, field) ==
    LET raw == Get(rule, field, Str(<<>>))
    IN Remove(IF Truthy(raw) THEN ToStr(raw) ELSE <<>>, DotCsv)

Columns(df) == {df.columns[i] : i \in 1..Len(df.columns)}

\* list(df[col]) : the column's cells in row order
Column(df, col) == [i \in 1..Len(df.rows) |-> df.rows[i][col]]

\* "name in self.data_sources" and self.data_sources[name]
Registered(D, name) == \E i \in 1..Len(D) : D[i].name = name
Lookup(D, name) == D[CHOOSE i \in 1..Len(D) : D[i].name = name].df

\* self.data_sources[name] = df : a dict keeps a key's first position
Register(D, name, df) ==
    IF Registered(D, name)
    THEN [i \in 1..Len(D) |-> IF D[i].name = name THEN [name |-> name, df |-> df]
                              ELSE D[i]]
    ELSE Append(D, [name |-> name, df |-> df])

NotFound == [found |-> FALSE, df |-> [columns |-> <<>>, rows |-> <<>>]]
Found(df) == [found |-> TRUE, df |-> df]

Source1Name == <<"s", "o", "u", "r", "c", "e", "1">>
Source2Name == <<"s", "o", "u", "r", "c", "e", "2">>

\* ReconciliationEngine._get_source_by_name
ReconGetSourceByName(D, name) ==
    LET name_lower == Remove(Remove(LowerStr(name), DotCsv), Underscore)
        key_lower(i) == Remove(LowerStr(D[i].name), Underscore)
        hit(i) == Contains(key_lower(i), name_lower) \/ Contains(name_lower, key_lower(i))
    IN IF \E i \in 1..Len(D) : hit(i)
       THEN Found(D[CHOOSE i \in 1..Len(D) : hit(i) /\ \A j \in 1..(i - 1) : ~hit(j)].df)
       ELSE IF (Contains(name_lower, Source1Name) \/ Contains(name_lower, <<"1">>))
               /\ Registered(D, Source1Name)
       THEN Found(Lookup(D, Source1Name))
       ELSE IF (Contains(name_lower, Source2Name) \/ Contains(name_lower, <<"2">>))
               /\ Registered(D, Source2Name)
       THEN Found(Lookup(D, Source2Name))
       ELSE NotFound

---------------------------------------------------------------------------
(* ReconciliationEngine: results, summary, key_match, value_equals         *)

\* ReconciliationSummary()
ReconciliationSummary ==
    [total_records_source1 |-> 0, total_records_source2 |-> 0,
     matched_records |-> 0, unmatched_source1 |-> 0, unmatched_source2 |-> 0,
     value_discrepancies |-> 0,
     rules_executed |-> 0, rules_passed |-> 0, rules_failed |-> 0,
     results |-> <<>>]

\* ReconciliationResult(...); rule_name is not modelled, details is kept as
\* the message kind and its argument.
ReconciliationResult(rule_id, record_key, source1_value, source2_value, difference, status, severity, details) ==
    [rule_id |-> rule_id, record_key |-> record_key,
     source1_value |-> source1_value, source2_value |-> source2_value,
     difference |-> difference, status |-> status, severity |-> severity,
     details |-> details]

Details(msg, arg) == [msg |-> msg, arg |-> arg]

ReconError(rule_id, details) ==
    ReconciliationResult(rule_id, Txt("N/A"), Txt("N/A"), Txt("N/A"), Txt("N/A"),
                         "ERROR", "ERROR", details)

\* What a call leaves behind: the list it returns, or an exception, and the
\* summary as the call left it.
Return(results, S) == [raised |-> FALSE, results |-> results, summary |-> S]
Raise(S) == [raised |-> TRUE, results |-> <<>>, summary |-> S]

SourcesNotFound(rule) ==
    <<ReconError(rule.rule_id, Details("Could not find one or both data sources", ""))>>

ColumnNotFound(rule, msg, col) == <<ReconError(rule.rule_id, Details(msg, col))>>

\* Mutation of KeySet: the last row is not read.
KeySet_DropLast(df, key) ==
    {ToStr(Column(df, key)[i]) : i \in 1..(Len(df.rows) - 1)}

\* set(df[key].astype(str).unique())
KeySet(df, key) == {ToStr(Column(df, key)[i]) : i \in 1..Len(df.rows)}

\* Mutation of KeyMatchBody: the PASS Result reports the Summary's
\* matched_records as the previous call left it.
KeyMatchBody_StaleCount(rule, S, df1, key1, df2, key2) ==
    LET keys1 == KeySet(df1, key1)
        keys2 == KeySet(df2, key2)
        S1 == [S EXCEPT !.total_records_source1 = Len(df1.rows),
                        !.total_records_source2 = Len(df2.rows),
                        !.matched_records = Cardinality(keys1 \cap keys2),
                        !.unmatched_source1 = Cardinality(keys1 \ keys2),
                        !.unmatched_source2 = Cardinality(keys2 \ keys1)]
        o1 == SetToSeq(keys1 \ keys2)
        o2 == SetToSeq(keys2 \ keys1)
        fails1 == [i \in 1..Len(o1) |->
                     ReconciliationResult(rule.rule_id, Str(o1[i]), Txt("EXISTS"),
                         Txt("MISSING"), Txt("Missing in Source 2"), "FAIL", "ERROR",
                         Details("exists in Source 1 but not in Source 2", o1[i]))]
        fails2 == [i \in 1..Len(o2) |->
                     ReconciliationResult(rule.rule_id, Str(o2[i]), Txt("MISSING"),
                         Txt("EXISTS"), Txt("Missing in Source 1"), "FAIL", "ERROR",
                         Details("exists in Source 2 but not in Source 1", o2[i]))]
    IN IF fails1 \o fails2 = <<>>
       THEN Return(<<ReconciliationResult(rule.rule_id, Txt("ALL"),
                        Str(IntStr(Cardinality(keys1))), Str(IntStr(Cardinality(keys2))),
                        Str(<<"0">>), "PASS", "INFO",
                        Details("All keys matched between sources",
                                S.matched_records))>>,
                   [S1 EXCEPT !.rules_passed = @ + 1])
       ELSE Return(fails1 \o fails2, [S1 EXCEPT !.rules_failed = @ + 1])

\* The body of _check_key_match once both frames and key columns are there.
KeyMatchBody(rule, S, df1, key1, df2, key2) ==
    LET keys1 == KeySet(df1, key1)
        keys2 == KeySet(df2, key2)
        only_in_source1 == keys1 \ keys2
        only_in_source2 == keys2 \ keys1
        matched == keys1 \cap keys2
        S1 == [S EXCEPT !.total_records_source1 = Len(df1.rows),
                        !.total_records_source2 = Len(df2.rows),
                        !.matched_records = Cardinality(matched),
                        !.unmatched_source1 = Cardinality(only_in_source1),
                        !.unmatched_source2 = Cardinality(only_in_source2)]
        o1 == SetToSeq(only_in_source1)
        o2 == SetToSeq(only_in_source2)
        fails1 == [i \in 1..Len(o1) |->
                     ReconciliationResult(rule.rule_id, Str(o1[i]), Txt("EXISTS"),
                         Txt("MISSING"), Txt("Missing in Source 2"), "FAIL", "ERROR",
                         Details("exists in Source 1 but not in Source 2", o1[i]))]
        fails2 == [i \in 1..Len(o2) |->
                     ReconciliationResult(rule.rule_id, Str(o2[i]), Txt("MISSING"),
                         Txt("EXISTS"), Txt("Missing in Source 1"), "FAIL", "ERROR",
                         Details("exists in Source 2 but not in Source 1", o2[i]))]
        results == fails1 \o fails2
    IN IF results = <<>>
       THEN Return(<<ReconciliationResult(rule.rule_id, Txt("ALL"),
                        Str(IntStr(Cardinality(keys1))), Str(IntStr(Cardinality(keys2))),
                        Str(<<"0">>), "PASS", "INFO",
                        Details("All keys matched between sources",
                                Cardinality(matched)))>>,
                   [S1 EXCEPT !.rules_passed = @ + 1])
       ELSE Return(results, [S1 EXCEPT !.rules_failed = @ + 1])

\* ReconciliationEngine._check_key_match
_check_key_match(rule, S, D) ==
    LET key1 == ColRef(rule, "key_column_s1")
        key2 == ColRef(rule, "key_column_s2")
        r1 == ReconGetSourceByName(D, SourceRef(rule, "source1"))
        r2 == ReconGetSourceByName(D, SourceRef(rule, "source2"))
    IN IF ~r1.found \/ ~r2.found THEN Return(SourcesNotFound(rule), S)
       ELSE IF key1 \notin Columns(r1.df)
       THEN Return(ColumnNotFound(rule, "Key column not found in Source 1", key1), S)
       ELSE IF key2 \notin Columns(r2.df)
       THEN Return(ColumnNotFound(rule, "Key column not found in Source 2", key2), S)
       ELSE KeyMatchBody(rule, S, r1.df, key1, r2.df, key2)

\* The dtype pandas gives a column: numeric unless a cell holds text.
ColKind(df, col) ==
    IF \E i \in 1..Len(df.rows) : df.rows[i][col].t = "str" THEN "object"
    ELSE "numeric"

\* pd.merge refuses to join a numeric key column with a text one when both
\* frames have rows (ValueError).
MergeRaises(df1, key1, df2, key2) ==
    /\ Len(df1.rows) > 0
    /\ Len(df2.rows) > 0
    /\ ColKind(df1, key1) # ColKind(df2, key2)

\* Mutation of Merge: every left row is paired with every right row.
Merge_Cross(df1, key1, col1, df2, key2, col2) ==
    Flatten([i \in 1..Len(df1.rows) |->
        [j \in 1..Len(df2.rows) |->
            [key |-> df1.rows[i][key1], val1 |-> df1.rows[i][col1],
             val2 |-> df2.rows[j][col2]]]])

\* pd.merge(df1[[key1, col1]], df2[[key2, col2]], on='key', how='inner'):
\* the pairs of rows with equal keys, in the order of the left rows and,
\* for one left row, of the right rows.
Merge(df1, key1, col1, df2, key2, col2) ==
    Flatten([i \in 1..Len(df1.rows) |->
        Flatten([j \in 1..Len(df2.rows) |->
            IF df1.rows[i][key1] = df2.rows[j][key2]
            THEN <<[key |-> df1.rows[i][key1],
                    val1 |-> df1.rows[i][col1],
                    val2 |-> df2.rows[j][col2]]>>
            ELSE <<>>])])

\* str(diff) of a comparator difference
DiffStr(diff) == IF diff.t = "num" THEN Str(ToStr(diff)) ELSE diff

\* The loop of _check_value_equals over the merged rows: each joined pair
\* with what the comparator says of it.
Compared(merged, tolerance, tolerance_type) ==
    [i \in 1..Len(merged) |->
        [key |-> merged[i].key, val1 |-> merged[i].val1, val2 |-> merged[i].val2,
         c |-> _compare_values(merged[i].val1, merged[i].val2, tolerance, tolerance_type)]]

\* What follows the loop: bad are the pairs that did not match, of n joined.
ValueEqualsReturn(rule, S, n, bad) ==
    IF bad = <<>>
    THEN Return(<<ReconciliationResult(rule.rule_id, Txt("ALL"),
                     Details("values", n), Details("values", n),
                     Str(<<"0">>), "PASS", "INFO",
                     Details("All values matched within tolerance", n))>>,
                [S EXCEPT !.value_discrepancies = @ + Len(bad), !.rules_passed = @ + 1])
    ELSE Return([i \in 1..Len(bad) |->
                    ReconciliationResult(rule.rule_id, Str(ToStr(bad[i].key)),
                        Str(ToStr(bad[i].val1)), Str(ToStr(bad[i].val2)),
                        DiffStr(bad[i].c.diff), "FAIL", "ERROR",
                        Details("Value mismatch", ""))],
                [S EXCEPT !.value_discrepancies = @ + Len(bad), !.rules_failed = @ + 1])

ValueEqualsBody(rule, S, merged, tolerance, tolerance_type) ==
    ValueEqualsReturn(rule, S, Len(merged),
                      SelectSeq(Compared(merged, tolerance, tolerance_type),
                                LAMBDA pair : ~pair.c.match))

JoinError(results) == [status |-> "error", results |-> results, merged |-> <<>>]

\* The source and column checks shared by value_equals and fuzzy_match, and
\* the merge that follows them.
Join(rule, D) ==
    LET key1 == ColRef(rule, "key_column_s1")
        key2 == ColRef(rule, "key_column_s2")
        col1 == ColRef(rule, "compare_column_s1")
        col2 == ColRef(rule, "compare_column_s2")
        r1 == ReconGetSourceByName(D, SourceRef(rule, "source1"))
        r2 == ReconGetSourceByName(D, SourceRef(rule, "source2"))
    IN IF ~r1.found \/ ~r2.found THEN JoinError(SourcesNotFound(rule))
       ELSE IF key1 \notin Columns(r1.df)
       THEN JoinError(ColumnNotFound(rule, "Key column not found in Source 1", key1))
       ELSE IF key2 \notin Columns(r2.df)
       THEN JoinError(ColumnNotFound(rule, "Key column not found in Source 2", key2))
       ELSE IF col1 \notin Columns(r1.df)
       THEN JoinError(ColumnNotFound(rule, "Compare column not found in Source 1", col1))
       ELSE IF col2 \notin Columns(r2.df)
       THEN JoinError(ColumnNotFound(rule, "Compare column not found in Source 2", col2))
       ELSE IF MergeRaises(r1.df, key1, r2.df, key2)
       THEN [status |-> "raise", results |-> <<>>, merged |-> <<>>]
       ELSE [status |-> "ok", results |-> <<>>,
             merged |-> Merge(r1.df, key1, col1, r2.df, key2, col2)]

\* out is what the check does with the merged rows
AfterJoin(S, join, out) ==
    CASE join.status = "error" -> Return(join.results, S)
      [] join.status = "raise" -> Raise(S)
      [] OTHER -> out

\* tolerance and tolerance_type as _check_value_equals reads them
ValueTolerance(rule) ==
    IF notna(Get(rule, "tolerance", Str(<<>>)))
    THEN ToStr(Get(rule, "tolerance", Str(<<>>))) ELSE <<>>

ValueToleranceType(rule) ==
    IF notna(Get(rule, "tolerance_type", Txt("")))
    THEN LowerAtom(AtomStr(Get(rule, "tolerance_type", Txt("")))) ELSE ""

\* ReconciliationEngine._check_value_equals
_check_value_equals(rule, S, D) ==
    AfterJoin(S, Join(rule, D),
              ValueEqualsBody(rule, S, Join(rule, D).merged,
                              ValueTolerance(rule), ValueToleranceType(rule)))

---------------------------------------------------------------------------
(* TextSimilarityMatcher: difflib.SequenceMatcher(None, a, b).ratio()      *)
(* (no junk: the autojunk heuristic needs 200 or more characters)          *)

\* length of the longest common prefix of a[i..ahi] and b[j..bhi]
RECURSIVE CommonLen(_, _, _, _, _, _)
CommonLen(a, i, ahi, b, j, bhi) ==
    IF i <= ahi /\ j <= bhi /\ a[i] = b[j]
    THEN 1 + CommonLen(a, i + 1, ahi, b, j + 1, bhi)
    ELSE 0

\* find_longest_match: the longest block, the earliest in a, then in b
LongestMatch(a, alo, ahi, b, blo, bhi) ==
    LET starts == (alo..ahi) \X (blo..bhi)
        k(p) == CommonLen(a, p[1], ahi, b, p[2], bhi)
        best == CHOOSE p \in starts :
                    \A q \in starts :
                        \/ k(q) < k(p)
                        \/ k(q) = k(p) /\ (p[1] < q[1] \/ (p[1] = q[1] /\ p[2] <= q[2]))
    IN [i |-> best[1], j |-> best[2], k |-> k(best)]

\* Mutation of MatchTotal: only the longest block is counted.
MatchTotal_LongestOnly(a, alo, ahi, b, blo, bhi) ==
    IF alo > ahi \/ blo > bhi THEN 0
    ELSE LongestMatch(a, alo, ahi, b, blo, bhi).k

\* the total size of get_matching_blocks() within a[alo..ahi], b[blo..bhi]
RECURSIVE MatchTotal(_, _, _, _, _, _)
MatchTotal(a, alo, ahi, b, blo, bhi) ==
    IF alo > ahi \/ blo > bhi THEN 0
    ELSE LET m == LongestMatch(a, alo, ahi, b, blo, bhi)
         IN IF m.k = 0 THEN 0
            ELSE m.k + MatchTotal(a, alo, m.i - 1, b, blo, m.j - 1)
                     + MatchTotal(a, m.i + m.k, ahi, b, m.j + m.k, bhi)

\* ratio(): 2.0 * matches / length, 1.0 for two empty strings
Ratio(a, b) ==
    IF Len(a) + Len(b) = 0 THEN Num(1)
    ELSE Q(2 * MatchTotal(a, 1, Len(a), b, 1, Len(b)), Len(a) + Len(b))

---------------------------------------------------------------------------
(* ReconciliationEngine: fuzzy_match and the aggregates                    *)

DefaultThreshold == 80

\* The loop of _check_fuzzy_match over the merged rows: each joined pair
\* with its similarity.
Similarities(merged) ==
    [i \in 1..Len(merged) |->
        [key |-> merged[i].key, val1 |-> merged[i].val1, val2 |-> merged[i].val2,
         similarity |-> Ratio(LowerStr(ToStr(merged[i].val1)),
                              LowerStr(ToStr(merged[i].val2)))]]

\* What follows the loop: bad are the pairs below the threshold, of n joined.
FuzzyReturn(rule, S, n, bad, threshold) ==
    IF bad = <<>>
    THEN Return(<<ReconciliationResult(rule.rule_id, Txt("ALL"),
                     Details("values", n), Details("values", n),
                     Txt("N/A"), "PASS", "INFO",
                     Details("All text values matched within similarity threshold", n))>>,
                [S EXCEPT !.rules_passed = @ + 1])
    ELSE Return([i \in 1..Len(bad) |->
                    ReconciliationResult(rule.rule_id, Str(ToStr(bad[i].key)),
                        Str(ToStr(bad[i].val1)), Str(ToStr(bad[i].val2)),
                        QMul(bad[i].similarity, Num(100)), "FAIL", "WARNING",
                        Details("Fuzzy match below threshold", threshold))],
                [S EXCEPT !.rules_failed = @ + 1])

\* Mutation of FuzzyBody: a pair at the threshold fails too.
FuzzyBody_AtThreshold(rule, S, merged, threshold) ==
    FuzzyReturn(rule, S, Len(merged),
                SelectSeq(Similarities(merged), LAMBDA pair : QLeq(pair.similarity, threshold)),
                threshold)

FuzzyBody(rule, S, merged, threshold) ==
    FuzzyReturn(rule, S, Len(merged),
                SelectSeq(Similarities(merged), LAMBDA pair : QLess(pair.similarity, threshold)),
                threshold)

\* float(tolerance_raw if pd.notna(tolerance_raw) else 80)
FuzzyTolerance(rule) ==
    ToFloat(IF notna(Get(rule, "tolerance", Num(DefaultThreshold)))
            THEN Get(rule, "tolerance", Num(DefaultThreshold))
            ELSE Num(DefaultThreshold))

\* ReconciliationEngine._check_fuzzy_match
_check_fuzzy_match(rule, S, D) ==
    IF ~FuzzyTolerance(rule).ok THEN Raise(S)      \* float(...): ValueError
    ELSE AfterJoin(S, Join(rule, D),
                   FuzzyBody(rule, S, Join(rule, D).merged,
                             QDiv(FuzzyTolerance(rule).q, Num(100))))

RECURSIVE SumNum(_)
SumNum(cells) == IF cells = <<>> THEN Num(0)
                 ELSE IF isna(Head(cells)) THEN SumNum(Tail(cells))
                 ELSE QAdd(Head(cells), SumNum(Tail(cells)))

RECURSIVE Concat(_)
Concat(cells) == IF cells = <<>> THEN <<>> ELSE Head(cells).s \o Concat(Tail(cells))

HasText(cells) == \E i \in 1..Len(cells) : cells[i].t = "str"

\* df[col].sum(): nulls are skipped in a numeric column; a text column is
\* concatenated, and raises TypeError when a null stands among the texts.
ColSum(df, col) ==
    LET cells == Column(df, col)
    IN IF HasText(cells)
       THEN IF \E i \in 1..Len(cells) : isna(cells[i]) THEN [raised |-> TRUE, v |-> Null]
            ELSE [raised |-> FALSE, v |-> Str(Concat(cells))]
       ELSE [raised |-> FALSE, v |-> SumNum(cells)]

\* df[col].mean(): NaN for no numbers at all, TypeError for a text column
ColMean(df, col) ==
    LET cells == Column(df, col)
        present == SelectSeq(cells, notna)
    IN IF HasText(cells) THEN [raised |-> TRUE, v |-> Null]
       ELSE IF present = <<>> THEN [raised |-> FALSE, v |-> Null]
       ELSE [raised |-> FALSE, v |-> QDiv(SumNum(present), Num(Len(present)))]

\* The tolerance fields as the two aggregate checks read them.
AggTolerance(rule) ==
    LET raw == Get(rule, "tolerance", Str(<<"0">>))
    IN IF notna(raw) THEN ToStr(raw) ELSE <<"0">>

AggToleranceType(rule) ==
    LET raw == Get(rule, "tolerance_type", Txt("percentage"))
    IN IF notna(raw) THEN AtomStr(raw) ELSE "percentage"

\* What follows the two aggregates in _check_aggregate_sum / _avg: the
\* comparison, the counters, then the Result, whose f"{value:,.2f}" raises
\* ValueError for a text aggregate.  The two decimals are not modelled.
AggregateCompare(rule, S, record_key, agg1, agg2) ==
    LET c == _compare_values(agg1, agg2, AggTolerance(rule), AggToleranceType(rule))
        S1 == IF c.match THEN [S EXCEPT !.rules_passed = @ + 1]
              ELSE [S EXCEPT !.rules_failed = @ + 1]
    IN IF agg1.t = "str" \/ agg2.t = "str" THEN Raise(S1)
       ELSE Return(<<ReconciliationResult(rule.rule_id, Txt(record_key), agg1, agg2,
                        c.diff, IF c.match THEN "PASS" ELSE "FAIL",
                        IF ~c.match THEN "ERROR" ELSE "INFO",
                        Details("comparison", ""))>>, S1)

\* ReconciliationEngine._check_aggregate_sum
_check_aggregate_sum(rule, S, D) ==
    LET col1 == ColRef(rule, "compare_column_s1")
        col2 == ColRef(rule, "compare_column_s2")
        r1 == ReconGetSourceByName(D, SourceRef(rule, "source1"))
        r2 == ReconGetSourceByName(D, SourceRef(rule, "source2"))
    IN IF ~r1.found \/ ~r2.found THEN Return(SourcesNotFound(rule), S)
       ELSE IF col1 \notin Columns(r1.df)
       THEN Return(ColumnNotFound(rule, "Column not found in Source 1", col1), S)
       ELSE IF col2 \notin Columns(r2.df)
       THEN Return(ColumnNotFound(rule, "Column not found in Source 2", col2), S)
       ELSE LET sum1 == ColSum(r1.df, col1)
                sum2 == ColSum(r2.df, col2)
            IN IF sum1.raised \/ sum2.raised THEN Raise(S)
               ELSE AggregateCompare(rule, S, "AGGREGATE_SUM", sum1.v, sum2.v)

\* Mutation of _check_aggregate_count: the difference loses its sign.
_check_aggregate_count_Unsigned(rule, S, D) ==
    LET r1 == ReconGetSourceByName(D, SourceRef(rule, "source1"))
        r2 == ReconGetSourceByName(D, SourceRef(rule, "source2"))
        diff == Abs(Len(r1.df.rows) - Len(r2.df.rows))
    IN IF ~r1.found \/ ~r2.found THEN Return(SourcesNotFound(rule), S)
       ELSE Return(<<ReconciliationResult(rule.rule_id, Txt("AGGREGATE_COUNT"),
                        Str(IntStr(Len(r1.df.rows))), Str(IntStr(Len(r2.df.rows))),
                        Str(IntStr(diff)), IF diff = 0 THEN "PASS" ELSE "FAIL",
                        IF diff # 0 THEN "WARNING" ELSE "INFO",
                        Details("Record count", diff))>>,
                   IF diff = 0 THEN [S EXCEPT !.rules_passed = @ + 1]
                   ELSE [S EXCEPT !.rules_failed = @ + 1])

\* ReconciliationEngine._check_aggregate_count
_check_aggregate_count(rule, S, D) ==
    LET r1 == ReconGetSourceByName(D, SourceRef(rule, "source1"))
        r2 == ReconGetSourceByName(D, SourceRef(rule, "source2"))
    IN IF ~r1.found \/ ~r2.found THEN Return(SourcesNotFound(rule), S)
       ELSE LET count1 == Len(r1.df.rows)
                count2 == Len(r2.df.rows)
                diff == count1 - count2
                status == IF diff = 0 THEN "PASS" ELSE "FAIL"
            IN Return(<<ReconciliationResult(rule.rule_id, Txt("AGGREGATE_COUNT"),
                            Str(IntStr(count1)), Str(IntStr(count2)), Str(IntStr(diff)),
                            status, IF diff # 0 THEN "WARNING" ELSE "INFO",
                            Details("Record count", diff))>>,
                      IF status = "PASS" THEN [S EXCEPT !.rules_passed = @ + 1]
                      ELSE [S EXCEPT !.rules_failed = @ + 1])

\* ReconciliationEngine._check_aggregate_avg (no column check: df[col] on a
\* missing column raises KeyError)
_check_aggregate_avg(rule, S, D) ==
    LET col1 == ColRef(rule, "compare_column_s1")
        col2 == ColRef(rule, "compare_column_s2")
        r1 == ReconGetSourceByName(D, SourceRef(rule, "source1"))
        r2 == ReconGetSourceByName(D, SourceRef(rule, "source2"))
    IN IF ~r1.found \/ ~r2.found THEN Return(SourcesNotFound(rule), S)
       ELSE IF col1 \notin Columns(r1.df) \/ col2 \notin Columns(r2.df) THEN Raise(S)
       ELSE LET avg1 == ColMean(r1.df, col1)
                avg2 == ColMean(r2.df, col2)
            IN IF avg1.raised \/ avg2.raised THEN Raise(S)
               ELSE AggregateCompare(rule, S, "AGGREGATE_AVG", avg1.v, avg2.v)

---------------------------------------------------------------------------
(* ReconciliationEngine.execute_rule and the test of run_all_rules         *)

\* Mutation of IsActive: the flag is not read.
IsActive_Always(rule) == TRUE

\* str(rule.get("active", "TRUE")).upper() == "TRUE"
IsActive(rule) == UpperAtom(AtomStr(Get(rule, "active", Txt("TRUE")))) = "TRUE"

\* check_type = str(check_type_raw).lower() if pd.notna(check_type_raw) else ""
ReconCheckType(rule) ==
    LET check_type_raw == Get(rule, "check_type", Txt(""))
    IN IF notna(check_type_raw) THEN LowerAtom(AtomStr(check_type_raw)) ELSE ""

ReconSkip(rule) ==
    ReconciliationResult(rule.rule_id, Txt("N/A"), Txt("N/A"), Txt("N/A"), Txt("N/A"),
                         "SKIP", "WARNING", Details("Unknown check type", ReconCheckType(rule)))

\* The if / elif chain inside the try of execute_rule.
ReconDispatch(rule, S, D) ==
    LET check_type == ReconCheckType(rule)
    IN CASE check_type = "key_match" -> _check_key_match(rule, S, D)
         [] check_type = "value_equals" -> _check_value_equals(rule, S, D)
         [] check_type = "fuzzy_match" -> _check_fuzzy_match(rule, S, D)
         [] check_type = "aggregate_sum" -> _check_aggregate_sum(rule, S, D)
         [] check_type = "aggregate_count" -> _check_aggregate_count(rule, S, D)
         [] check_type = "aggregate_avg" -> _check_aggregate_avg(rule, S, D)
         [] OTHER -> Return(<<ReconSkip(rule)>>, S)

\* The end of the try of execute_rule, where rules_executed is counted, and
\* its except clause, which replaces the results by one ERROR.
ReconExecuted(rule, out) ==
    IF out.raised
    THEN Return(<<ReconError(rule.rule_id, Details("Execution error", ""))>>, out.summary)
    ELSE Return(out.results, [out.summary EXCEPT !.rules_executed = @ + 1])

\* ReconciliationEngine.execute_rule
ReconExecuteRule(rule, S, D) == ReconExecuted(rule, ReconDispatch(rule, S, D))

---------------------------------------------------------------------------
(* ValidationEngine: results, summary, source and record key               *)

\* ValidationSummary()
ValidationSummary ==
    [total_records |-> 0, records_passed |-> 0,
     records_with_errors |-> 0, records_with_warnings |-> 0,
     rules_executed |-> 0, rules_passed |-> 0, rules_failed |-> 0,
     results |-> <<>>]

\* ValidationResult(...); rule_name is not modelled
ValidationResult(rule_id, record_key, column, value, expected, status, severity, details) ==
    [rule_id |-> rule_id, record_key |-> record_key, column |-> column,
     value |-> value, expected |-> expected, status |-> status,
     severity |-> severity, details |-> details]

\* ValidationEngine._error_result
_error_result(rule_id, message) ==
    ValidationResult(rule_id, Txt("N/A"), "N/A", Txt("N/A"), "N/A", "ERROR", "ERROR",
                     Details(message, ""))

\* ValidationEngine._pass_result, which also counts the rule as passed
_pass_result(rule_id, column, count) ==
    ValidationResult(rule_id, Txt("ALL"), column, Details("values", count), "Valid",
                     "PASS", "INFO", Details("All records passed validation", count))

\* ValidationEngine._update_summary
_update_summary(S, results, severity) ==
    IF results # <<>>
    THEN IF severity = "ERROR"
         THEN [S EXCEPT !.rules_failed = @ + 1,
                        !.records_with_errors = @ + Len(results)]
         ELSE [S EXCEPT !.rules_failed = @ + 1,
                        !.records_with_warnings = @ + Len(results)]
    ELSE S

\* ValidationEngine._get_source_by_name: name.lower() is evaluated once per
\* registered source, so a name that is not text raises AttributeError there.
ValidGetSourceByName(D, raw) ==
    LET name == Remove(LowerStr(raw.s), DotCsv)
        hit(i) == Contains(LowerStr(D[i].name), name)
    IN IF Len(D) = 0 THEN [raised |-> FALSE, found |-> FALSE, df |-> NotFound.df]
       ELSE IF raw.t # "str" THEN [raised |-> TRUE, found |-> FALSE, df |-> NotFound.df]
       ELSE IF \E i \in 1..Len(D) : hit(i)
       THEN [raised |-> FALSE, found |-> TRUE,
             df |-> D[CHOOSE i \in 1..Len(D) : hit(i) /\ \A j \in 1..(i - 1) : ~hit(j)].df]
       ELSE [raised |-> FALSE, found |-> FALSE, df |-> NotFound.df]

KeyColumnNames == <<"record_id", "id", "transaction_id", "key">>

Row(n) == [t |-> "row", n |-> n]

\* ValidationEngine._get_record_key for the row at position i (idx = i - 1)
_get_record_key(df, i) ==
    IF \E k \in 1..Len(KeyColumnNames) : KeyColumnNames[k] \in Columns(df)
    THEN Str(ToStr(df.rows[i][KeyColumnNames[
             CHOOSE k \in 1..Len(KeyColumnNames) :
                 /\ KeyColumnNames[k] \in Columns(df)
                 /\ \A m \in 1..(k - 1) : KeyColumnNames[m] \notin Columns(df)]]))
    ELSE Row(i)

\* str(parameter).split(","), each entry stripped
RECURSIVE Split(_, _)
Split(s, sep) ==
    IF \E i \in 1..Len(s) : s[i] = sep
    THEN LET i == CHOOSE k \in 1..Len(s) : s[k] = sep /\ \A m \in 1..(k - 1) : s[m] # sep
         IN <<SubSeq(s, 1, i - 1)>> \o Split(SubSeq(s, i + 1, Len(s)), sep)
    ELSE <<s>>

StrippedList(s) == {Strip(Split(s, ",")[i]) : i \in 1..Len(Split(s, ","))}

\* float(rule.get(field, default)): NaN stays NaN (Null), text is parsed
ParamFloat(rule, field, default) ==
    LET raw == Get(rule, field, Num(default))
    IN IF isna(raw) THEN [ok |-> TRUE, q |-> Null] ELSE ToFloat(raw)

\* int(rule.get(field, default)): NaN raises ValueError
ParamInt(rule, field, default) ==
    LET raw == Get(rule, field, Num(default))
    IN IF isna(raw) THEN [ok |-> FALSE, q |-> Num(0)]
       ELSE LET f == ToFloat(raw)
            IN IF f.ok THEN [ok |-> TRUE, q |-> Num(f.q.n \div f.q.d)] ELSE f

---------------------------------------------------------------------------
(* ValidationEngine: the per-record tests of the nineteen check kinds      *)

\* The patterns a rule sheet of the model carries, and re.compile on them.
RegexCompiles(pattern) == pattern \in {"", "[0-9]+", "[A-Z]+$"}

\* regex.match(text): the pattern must match from the start of the text
RegexMatch(pattern, s) ==
    CASE pattern = "" -> TRUE
      [] pattern = "[0-9]+" -> s # <<>> /\ IsDigit(s[1])
      [] pattern = "[A-Z]+$" -> s # <<>> /\ \A i \in 1..Len(s) : \E k \in 1..26 : UpperChars[k] = s[i]
      [] OTHER -> FALSE

\* format_map.get(date_format, date_format), as the field order and separator
PyFormat(date_format) ==
    CASE date_format \in {"YYYY-MM-DD", "%Y-%m-%d"} -> [order |-> "ymd", sep |-> "-"]
      [] date_format \in {"MM/DD/YYYY", "%m/%d/%Y"} -> [order |-> "mdy", sep |-> "/"]
      [] date_format \in {"DD/MM/YYYY", "%d/%m/%Y"} -> [order |-> "dmy", sep |-> "/"]
      [] OTHER -> [order |-> "ymd", sep |-> "/"]

DaysIn(y, m) ==
    IF m \in {4, 6, 9, 11} THEN 30
    ELSE IF m # 2 THEN 31
    ELSE IF (y % 4 = 0 /\ y % 100 # 0) \/ y % 400 = 0 THEN 29 ELSE 28

\* datetime.strptime(text, py_format) succeeds
StrptimeOk(s, fmt) ==
    LET parts == Split(s, fmt.sep)
        yi == IF fmt.order = "ymd" THEN 1 ELSE 3
        mi == IF fmt.order = "ymd" THEN 2 ELSE IF fmt.order = "mdy" THEN 1 ELSE 2
        di == IF fmt.order = "ymd" THEN 3 ELSE IF fmt.order = "mdy" THEN 2 ELSE 1
        short(x) == AllDigits(x) /\ Len(x) <= 2
    IN /\ Len(parts) = 3
       /\ AllDigits(parts[yi]) /\ Len(parts[yi]) = 4
       /\ short(parts[mi]) /\ DigitsVal(parts[mi]) \in 1..12
       /\ short(parts[di])
       /\ DigitsVal(parts[di]) \in 1..DaysIn(DigitsVal(parts[yi]), DigitsVal(parts[mi]))

CheckKinds == {"not_null", "not_empty", "greater_than", "less_than", "between",
               "equals", "not_equals", "is_in_list", "not_in_list", "regex_match",
               "is_date", "is_numeric", "is_integer", "unique", "min_length",
               "max_length", "starts_with", "ends_with", "contains"}

\* What the check reads from the rule before it looks for the data source;
\* raised: one of the conversions raised.
ParamsRaise(kind, rule) ==
    CASE kind \in {"greater_than", "less_than"} -> ~ParamFloat(rule, "parameter_1", 0).ok
      [] kind = "between" -> \/ ~ParamFloat(rule, "parameter_1", 0).ok
                             \/ ~ParamFloat(rule, "parameter_2", 100).ok
      [] kind = "min_length" -> ~ParamInt(rule, "parameter_1", 0).ok
      [] kind = "max_length" -> ~ParamInt(rule, "parameter_1", 255).ok
      [] OTHER -> FALSE

\* a <= b on floats, where a comparison with NaN (Null) is False
FLeq(a, b) == notna(a) /\ notna(b) /\ QLeq(a, b)

\* Mutation of FLess: equal values count as less.
FLess_OrEqual(a, b) == notna(a) /\ notna(b) /\ QLeq(a, b)

\* a < b on floats
FLess(a, b) == notna(a) /\ notna(b) /\ QLess(a, b)

\* The test of one record: "fail" appends a FAIL Result, "ok" appends
\* nothing, "raise" is an exception that leaves the loop and the check.
RecordOutcome(kind, rule, value) ==
    LET p1 == Get(rule, "parameter_1", Str(<<>>))
        f == ToFloat(value)
        text == ToStr(value)
        fail(cond) == IF cond THEN "fail" ELSE "ok"
    IN CASE kind = "not_null" -> fail(isna(value))
         [] kind = "not_empty" -> fail(isna(value) \/ Strip(text) = <<>>)
         [] kind = "greater_than" ->
              IF isna(value) THEN "ok"
              ELSE IF ~f.ok THEN "fail"
              ELSE fail(FLeq(f.q, ParamFloat(rule, "parameter_1", 0).q))
         [] kind = "less_than" ->
              IF isna(value) \/ ~f.ok THEN "ok"
              ELSE fail(FLeq(ParamFloat(rule, "parameter_1", 0).q, f.q))
         [] kind = "between" ->
              IF isna(value) \/ ~f.ok THEN "ok"
              ELSE fail(FLess(f.q, ParamFloat(rule, "parameter_1", 0).q)
                        \/ FLess(ParamFloat(rule, "parameter_2", 100).q, f.q))
         [] kind = "equals" -> fail(Strip(text) # Strip(ToStr(p1)))
         [] kind = "not_equals" -> fail(Strip(text) = Strip(ToStr(p1)))
         [] kind = "is_in_list" ->
              fail(notna(value) /\ Strip(text) \notin StrippedList(ToStr(p1)))
         [] kind = "not_in_list" ->
              fail(notna(value) /\ Strip(text) \in StrippedList(ToStr(p1)))
         [] kind = "regex_match" ->
              fail(notna(value) /\ ~RegexMatch(Get(rule, "parameter_1", Txt("")).a, text))
         [] kind = "is_date" ->
              IF isna(value) THEN "ok"
              ELSE IF Get(rule, "parameter_1", Txt("%Y-%m-%d")).t # "txt" THEN "raise"
              ELSE fail(~StrptimeOk(text, PyFormat(Get(rule, "parameter_1",
                                                       Txt("%Y-%m-%d")).a)))
         [] kind = "is_numeric" -> fail(notna(value) /\ ~f.ok)
         [] kind = "is_integer" -> fail(notna(value) /\ (~f.ok \/ f.q.d # 1))
         [] kind = "min_length" ->
              fail(notna(value) /\ Len(text) < ParamInt(rule, "parameter_1", 0).q.n)
         [] kind = "max_length" ->
              fail(notna(value) /\ Len(text) > ParamInt(rule, "parameter_1", 255).q.n)
         [] kind = "starts_with" ->
              IF isna(value) THEN "ok"
              ELSE IF p1.t # "str" THEN "raise"   \* TypeError
              ELSE fail(~MatchAt(text, p1.s, 1))
         [] kind = "ends_with" ->
              IF isna(value) THEN "ok"
              ELSE IF p1.t # "str" THEN "raise"   \* TypeError
              ELSE fail(~(Len(p1.s) <= Len(text)
                          /\ MatchAt(text, p1.s, Len(text) - Len(p1.s) + 1)))
         [] kind = "contains" ->
              IF isna(value) THEN "ok"
              ELSE IF p1.t # "str" THEN "raise"   \* TypeError
              ELSE fail(~Contains(text, p1.s))
         [] OTHER -> "ok"

---------------------------------------------------------------------------
(* ValidationEngine: the check functions and execute_rule                  *)

\* Mutation of Duplicated: the first occurrence is not marked (keep='first').
Duplicated_KeepFirst(df, column, i) ==
    \E j \in 1..(i - 1) : df.rows[j][column] = df.rows[i][column]

\* df.duplicated(subset=[column], keep=False) for row i: nulls count as equal
Duplicated(df, column, i) ==
    \E j \in 1..Len(df.rows) : j # i /\ df.rows[j][column] = df.rows[i][column]

\* value= of a FAIL Result
FailValue(kind, value) ==
    IF kind \in {"not_null", "not_empty"} /\ isna(value) THEN Txt("NULL")
    ELSE IF kind = "max_length"
    THEN Str(SubSeq(ToStr(value), 1, IF Len(ToStr(value)) < 50 THEN Len(ToStr(value))
                                     ELSE 50) \o <<".", ".", ".">>)
    ELSE Str(ToStr(value))

\* The loop over the records that the nineteen _check_* functions share:
\* what the test says of each record.
Outcomes(kind, rule, df, column) ==
    [i \in 1..Len(df.rows) |->
        IF kind = "unique" THEN IF Duplicated(df, column, i) THEN "fail" ELSE "ok"
        ELSE RecordOutcome(kind, rule, df.rows[i][column])]

FailResults(kind, rule, df, column, severity, failed) ==
    [k \in 1..Len(failed) |->
        ValidationResult(rule.rule_id, _get_record_key(df, failed[k]), column,
            FailValue(kind, df.rows[failed[k]][column]), kind, "FAIL", severity,
            Details(kind, ""))]

\* Mutation of CheckReturn: no PASS Result is synthesised.
CheckReturn_NoPass(rule, S, column, n, results, severity) ==
    Return(results, _update_summary(S, results, severity))

\* _update_summary and the return statement
CheckReturn(rule, S, column, n, results, severity) ==
    IF results # <<>> THEN Return(results, _update_summary(S, results, severity))
    ELSE Return(<<_pass_result(rule.rule_id, column, n)>>,
                [_update_summary(S, results, severity) EXCEPT !.rules_passed = @ + 1])

Positions(outcomes, o) ==
    SelectSeq([i \in 1..Len(outcomes) |-> i], LAMBDA i : outcomes[i] = o)

CheckOutcomes(kind, rule, S, df, column, severity, outcomes) ==
    IF Positions(outcomes, "raise") # <<>> THEN Raise(S)
    ELSE CheckReturn(rule, S, column, Len(df.rows),
                     FailResults(kind, rule, df, column, severity,
                                 Positions(outcomes, "fail")),
                     severity)

CheckRecords(kind, rule, S, df, column, severity) ==
    CheckOutcomes(kind, rule, S, df, column, severity, Outcomes(kind, rule, df, column))

\* One of ValidationEngine._check_<kind>
ValidCheck(kind, rule, S, D) ==
    LET column == AtomStr(Get(rule, "column", Txt("")))
        severity == AtomStr(Get(rule, "severity", Txt("ERROR")))
        pattern == Get(rule, "parameter_1", Txt(""))
        src == ValidGetSourceByName(D, Get(rule, "data_source", Str(<<>>)))
    IN IF ParamsRaise(kind, rule) \/ src.raised THEN Raise(S)
       ELSE IF ~src.found
       THEN Return(<<_error_result(rule.rule_id, "Data source not found")>>, S)
       ELSE IF kind = "regex_match" /\ pattern.t # "txt" THEN Raise(S)
       ELSE IF kind = "regex_match" /\ ~RegexCompiles(pattern.a)
       THEN Return(<<_error_result(rule.rule_id, "Invalid regex")>>, S)
       ELSE IF column \notin Columns(src.df)
               /\ (kind \in {"not_null", "unique"} \/ Len(src.df.rows) > 0)
       THEN Raise(S)                            \* df[column]: KeyError
       ELSE CheckRecords(kind, rule, S, src.df, column, severity)

ValidSkip(rule, check_type) ==
    ValidationResult(rule.rule_id, Txt("N/A"), "N/A", Txt("N/A"), "N/A", "SKIP",
                     "WARNING", Details("Unknown check type", check_type))

\* The end of the try of execute_rule and its except clause.
ValidExecuted(rule, out) ==
    IF out.raised
    THEN Return(<<_error_result(rule.rule_id, "Execution error")>>, out.summary)
    ELSE Return(out.results, [out.summary EXCEPT !.rules_executed = @ + 1])

\* The body of the try: the registry lookup and the call.
ValidDispatch(rule, check_type, S, D) ==
    IF check_type \in CheckKinds THEN ValidCheck(check_type, rule, S, D)
    ELSE Return(<<ValidSkip(rule, check_type)>>, S)

\* ValidationEngine.execute_rule.  check_type is lowered before the try: a
\* check_type that is not text raises AttributeError out of execute_rule.
ValidExecuteRule(rule, S, D) ==
    IF Get(rule, "check_type", Txt("")).t # "txt" THEN Raise(S)
    ELSE ValidExecuted(rule,
             ValidDispatch(rule, LowerAtom(Get(rule, "check_type", Txt("")).a), S, D))

\* Mutation of RecordsPassed: every FAIL Result is counted, not every key.
RecordsPassed_PerResult(S) ==
    [S EXCEPT !.records_passed =
        S.total_records - Len(SelectSeq(S.results, LAMBDA r : r.status = "FAIL"))]

\* The end of ValidationEngine.run_all_rules: records_passed
RecordsPassed(S) ==
    LET failed_records == {S.results[i].record_key :
                              i \in {k \in 1..Len(S.results) : S.results[k].status = "FAIL"}}
    IN [S EXCEPT !.records_passed = S.total_records - Cardinality(failed_records)]

---------------------------------------------------------------------------
(* The inputs of the model: frames, source names, rule sheets              *)

MaxRules == 2       \* rules one run_all_rules call iterates over
MaxRows == 2        \* rows of a generated frame
MaxVal == 2         \* largest magnitude of a generated number

FrameColumns == <<"id", "amount", "name">>

Rec(id, amount, name) == [id |-> id, amount |-> amount, name |-> name]

Smith == <<"S", "m", "i", "t", "h">>
Smyth == <<"S", "m", "y", "t", "h">>
Ann == <<"A", "N", "N">>

\* The files a run loads.
FrameA == [columns |-> FrameColumns,
           rows |-> <<Rec(Num(1), Num(100), Str(Smith)), Rec(Num(2), Num(200), Str(Ann))>>]
FrameB == [columns |-> FrameColumns,
           rows |-> <<Rec(Num(1), Num(150), Str(Smyth)), Rec(Num(3), Null, Str(Ann))>>]
FrameT == [columns |-> FrameColumns,
           rows |-> <<Rec(Str(<<"1">>), Num(100), Str(Smith))>>]

Frames == {FrameA, FrameB, FrameT}

ValidationDataName == <<"v", "a", "l", "i", "d", "a", "t", "i", "o", "n", "_",
                        "d", "a", "t", "a">>
Source1File == Source1Name \o DotCsv
Source2File == Source2Name \o DotCsv
LedgerFile == <<"l", "e", "d", "g", "e", "r">> \o DotCsv

\* The names recon_tool registers the loaded files under, in its order.
SourceNames(e) == IF e = "recon" THEN <<Source1Name, Source2Name>>
                  ELSE <<ValidationDataName, Source1Name>>

\* rule with field f set to v / without field f
With(rule, f, v) == [x \in DOMAIN rule \cup {f} |-> IF x = f THEN v ELSE rule[x]]
Without(rule, f) == [x \in DOMAIN rule \ {f} |-> rule[x]]

\* The values of the "active" cell of a rule sheet (absent: see Without).
ActiveCells == {Txt("TRUE"), Txt("true"), Txt("FALSE"), Txt("false"),
                Bool(TRUE), Bool(FALSE), Null}

ReconKinds == {"key_match", "value_equals", "fuzzy_match", "aggregate_sum",
               "aggregate_count", "aggregate_avg"}

ReconBase(kind) ==
    [rule_id |-> 0, active |-> Txt("TRUE"), check_type |-> kind,
     source1 |-> Str(Source1File), source2 |-> Str(Source2File),
     key_column_s1 |-> Txt("id"), key_column_s2 |-> Txt("id"),
     compare_column_s1 |-> Txt("amount"), compare_column_s2 |-> Txt("amount"),
     tolerance |-> Null, tolerance_type |-> Null]

\* The rule sheet of a reconciliation run: the well-formed rule of each kind
\* and rules that differ from one of them in a cell.
ReconRules ==
    LET key == ReconBase(Txt("key_match"))
        val == ReconBase(Txt("value_equals"))
        fuz == With(ReconBase(Txt("fuzzy_match")), "compare_column_s1", Txt("name"))
        sum == ReconBase(Txt("aggregate_sum"))
        avg == ReconBase(Txt("aggregate_avg"))
        tol == With(val, "tolerance", Num(50))
    IN {ReconBase(Txt(k)) : k \in ReconKinds}
       \cup {With(key, "check_type", c) : c \in {Txt("KEY_MATCH"), Txt("bogus"), Null, Num(7)}}
       \cup {With(key, "active", a) : a \in ActiveCells}
       \cup {Without(key, "check_type"), Without(key, "active"), Without(val, "tolerance")}
       \cup {With(key, "source2", Str(LedgerFile)), With(key, "source2", Str(Source1File)),
             With(key, "key_column_s1", Null),
             With(val, "key_column_s2", Txt("missing")),
             With(val, "compare_column_s2", Txt("missing")),
             With(fuz, "compare_column_s2", Txt("name")),
             With(fuz, "tolerance", Str(<<"a", "b", "c">>)),
             With(sum, "compare_column_s2", Txt("missing")),
             With(sum, "compare_column_s2", Txt("name")),
             With(avg, "compare_column_s2", Txt("missing"))}
       \cup {With(tol, "tolerance_type", t) :
                t \in {Txt("absolute"), Txt("Percentage"), Txt("percentage")}}

ValidBase(kind, parameter_1) ==
    [rule_id |-> 0, active |-> Txt("TRUE"), check_type |-> Txt(kind),
     data_source |-> Str(ValidationDataName \o DotCsv), column |-> Txt("amount"),
     severity |-> Txt("ERROR"), parameter_1 |-> parameter_1, parameter_2 |-> Null]

\* The rule sheet of a validation run, built the same way.
ValidRules ==
    LET nn == ValidBase("not_null", Null)
        gt == ValidBase("greater_than", Num(100))
    IN {ValidBase(k, Null) : k \in {"not_null", "not_empty", "is_numeric", "is_integer",
                                    "unique"}}
       \cup {ValidBase(k, Num(100)) : k \in {"greater_than", "less_than", "equals",
                                             "not_equals", "not_in_list"}}
       \cup {ValidBase(k, Num(3)) : k \in {"min_length", "max_length"}}
       \cup {ValidBase(k, Str(<<"1">>)) : k \in {"starts_with", "ends_with", "contains"}}
       \cup {With(ValidBase("between", Num(100)), "parameter_2", Num(150)),
             ValidBase("is_in_list", Str(<<"1", "0", "0", ",", " ", "2", "0", "0">>)),
             ValidBase("regex_match", Txt("[0-9]+")),
             ValidBase("regex_match", Txt("(")),
             ValidBase("is_date", Txt("YYYY-MM-DD"))}
       \cup {With(nn, "check_type", c) : c \in {Txt("NOT_NULL"), Txt("bogus"), Null, Num(7)}}
       \cup {With(nn, "active", a) : a \in ActiveCells}
       \cup {Without(nn, "check_type"), Without(nn, "active"), Without(nn, "severity")}
       \cup {With(nn, "column", Txt("missing")), With(nn, "data_source", Str(LedgerFile)),
             With(nn, "data_source", Null), With(nn, "data_source", Str(Source1File)),
             With(nn, "severity", Txt("WARNING")), With(nn, "severity", Txt("INFO")),
             With(gt, "parameter_1", Str(<<"a", "b", "c">>)),
             With(gt, "column", Txt("name")),
             With(ValidBase("is_numeric", Null), "column", Txt("name")),
             With(ValidBase("contains", Num(1)), "column", Txt("name"))}

---------------------------------------------------------------------------
(* The run of one engine: load_data_source calls, then run_all_rules       *)

NotCalled == [called |-> FALSE, raised |-> FALSE, results |-> <<>>]
Called(results) == [called |-> TRUE, raised |-> FALSE, results |-> results]
Escaped == [called |-> TRUE, raised |-> TRUE, results |-> <<>>]

\* what the run remembers of a rule it has iterated over: the row of the
\* sheet, and the cells that run_all_rules and execute_rule read from it
Seen(rule) == [rule_id |-> rule.rule_id, active |-> Get(rule, "active", Txt("TRUE")),
               check_type |-> Get(rule, "check_type", Txt("")),
               tolerance |-> Get(rule, "tolerance", Str(<<>>)),
               tolerance_type |-> Get(rule, "tolerance_type", Txt("")),
               row |-> rule]

NoCompare == [phase |-> "none"]

Init ==
    /\ engine \in {"recon", "valid"}
    /\ data_sources = <<>>
    /\ summary = IF engine = "recon" THEN ReconciliationSummary ELSE ValidationSummary
    /\ rules = <<>>
    /\ returned = <<>>
    /\ pc = "load"
    /\ cmp = NoCompare

\* load_data_source(name, path): the file read is the frame df
LoadDataSource(name, df) ==
    /\ pc = "load"
    /\ Len(data_sources) < Len(SourceNames(engine))
    /\ name = SourceNames(engine)[Len(data_sources) + 1]
    /\ data_sources' = Register(data_sources, name, df)
    /\ UNCHANGED <<engine, summary, rules, returned, pc, cmp>>

\* run_all_rules up to its loop
Start ==
    /\ pc = "load"
    /\ pc' = "run"
    /\ summary' = IF engine = "valid" /\ Len(data_sources) > 0
                  THEN [summary EXCEPT !.total_records = Len(data_sources[1].df.rows)]
                  ELSE summary
    /\ UNCHANGED <<engine, data_sources, rules, returned, cmp>>

\* self.summary.results.extend(results)
Extend(out) ==
    /\ summary' = [out.summary EXCEPT !.results = @ \o out.results]
    /\ returned' = Append(returned, Called(out.results))

\* One iteration of the loop of ReconciliationEngine.run_all_rules
ReconRunRule(rule) ==
    /\ pc = "run"
    /\ engine = "recon"
    /\ Len(rules) < MaxRules
    /\ rules' = Append(rules, Seen(rule))
    /\ IF IsActive(rule)
       THEN Extend(ReconExecuteRule(rule, summary, data_sources))
       ELSE /\ returned' = Append(returned, NotCalled)
            /\ UNCHANGED summary
    /\ UNCHANGED <<engine, data_sources, pc, cmp>>

\* The call of execute_rule in ValidationEngine.run_all_rules: an exception
\* that leaves execute_rule leaves run_all_rules too.
ExtendOrRaise(out) ==
    IF out.raised
    THEN /\ summary' = out.summary
         /\ returned' = Append(returned, Escaped)
         /\ pc' = "raised"
    ELSE /\ Extend(out)
         /\ UNCHANGED pc

\* One iteration of the loop of ValidationEngine.run_all_rules
ValidRunRule(rule) ==
    /\ pc = "run"
    /\ engine = "valid"
    /\ Len(rules) < MaxRules
    /\ rules' = Append(rules, Seen(rule))
    /\ IF IsActive(rule)
       THEN ExtendOrRaise(ValidExecuteRule(rule, summary, data_sources))
       ELSE /\ returned' = Append(returned, NotCalled)
            /\ UNCHANGED <<summary, pc>>
    /\ UNCHANGED <<engine, data_sources, cmp>>

\* run_all_rules after its loop
Finish ==
    /\ pc = "run"
    /\ pc' = "done"
    /\ summary' = IF engine = "valid" THEN RecordsPassed(summary) ELSE summary
    /\ UNCHANGED <<engine, data_sources, rules, returned, cmp>>

Next ==
    \/ \E name \in {Source1Name, Source2Name, ValidationDataName}, df \in Frames :
          LoadDataSource(name, df)
    \/ Start
    \/ \E rule \in ReconRules : ReconRunRule(With(rule, "rule_id", Len(rules) + 1))
    \/ \E rule \in ValidRules : ValidRunRule(With(rule, "rule_id", Len(rules) + 1))
    \/ Finish

Spec == Init /\ [][Next]_vars

---------------------------------------------------------------------------
(* One reconciliation rule on generated frames                             *)

DataRows == {Rec(k, v, Str(Ann)) : k \in {Num(1), Num(2), Num(3)}, v \in {Num(1), Num(2)}}

\* every frame of at most MaxRows rows
DataFrames ==
    {[columns |-> FrameColumns, rows |-> rows] :
        rows \in UNION {[1..n -> DataRows] : n \in 0..MaxRows}}

DataRules ==
    {ReconBase(Txt("key_match")), ReconBase(Txt("value_equals")),
     With(With(ReconBase(Txt("value_equals")), "tolerance", Num(50)),
          "tolerance_type", Txt("percentage")),
     ReconBase(Txt("aggregate_count")),
     With(With(ReconBase(Txt("aggregate_count")), "key_column_s1", Txt("missing")),
          "compare_column_s2", Null)}

InitData ==
    /\ engine = "recon"
    /\ \E df1 \in DataFrames, df2 \in DataFrames :
           data_sources = Register(Register(<<>>, Source1Name, df1), Source2Name, df2)
    /\ summary = ReconciliationSummary
    /\ rules = <<>>
    /\ returned = <<>>
    /\ pc = "run"
    /\ cmp = NoCompare

\* run_all_rules on a one-rule sheet: its single iteration
DataRunRule(rule) ==
    /\ rules = <<>>
    /\ ReconRunRule(rule)

NextData == \E rule \in DataRules : DataRunRule(With(rule, "rule_id", 1))

SpecData == InitData /\ [][NextData]_vars

---------------------------------------------------------------------------
(* The comparator on its own                                               *)

CompareValues == {Null, Str(<<"x">>), Str(<<" ", "1">>)}
                 \cup {Num(n) : n \in (-MaxVal)..MaxVal}
CompareTolerances == {<<>>, <<"0">>, <<"5", "0">>, <<"1", "0", "0">>, <<"a", "b", "c">>}
CompareTypes == {"", "percentage", "absolute", "days", "Percentage"}

InitCompare ==
    /\ engine = "recon"
    /\ data_sources = <<>>
    /\ summary = ReconciliationSummary
    /\ rules = <<>>
    /\ returned = <<>>
    /\ pc = "compare"
    /\ \E val1 \in CompareValues, val2 \in CompareValues,
          tolerance \in CompareTolerances, tolerance_type \in CompareTypes :
           cmp = [phase |-> "call", val1 |-> val1, val2 |-> val2,
                  tolerance |-> tolerance, tolerance_type |-> tolerance_type]

\* _compare_values(val1, val2, ...) and the same call with the values swapped
Compare ==
    /\ cmp.phase = "call"
    /\ cmp' = [phase |-> "return", val1 |-> cmp.val1, val2 |-> cmp.val2,
               tolerance |-> cmp.tolerance, tolerance_type |-> cmp.tolerance_type,
               out |-> _compare_values(cmp.val1, cmp.val2, cmp.tolerance,
                                       cmp.tolerance_type),
               swapped |-> _compare_values(cmp.val2, cmp.val1, cmp.tolerance,
                                           cmp.tolerance_type)]
    /\ UNCHANGED <<engine, data_sources, summary, rules, returned, pc>>

SpecCompare == InitCompare /\ [][Compare]_vars

---------------------------------------------------------------------------
(* value_equals and an aggregate under the same tolerance fields           *)

\* The tolerance and tolerance_type cells of a rule sheet (Null: blank).
ToleranceCells == {Null, Num(0), Num(1), Num(50)}
ToleranceTypeCells == {Null, Txt("percentage"), Txt("Percentage"), Txt("absolute"),
                       Txt("ABSOLUTE"), Txt("days")}

\* a file of one row, whose amount is v
OneRow(v) == [columns |-> FrameColumns, rows |-> <<Rec(Num(1), v, Str(Ann))>>]

\* Two one-row files are loaded: the joined pair of value_equals and the two
\* sums (and averages) of the aggregates are the same two numbers.
InitTolerance ==
    /\ engine = "recon"
    /\ \E v1 \in (-1)..MaxVal, v2 \in (-1)..MaxVal :
           data_sources = Register(Register(<<>>, Source1Name, OneRow(Num(v1))),
                                   Source2Name, OneRow(Num(v2)))
    /\ summary = ReconciliationSummary
    /\ rules = <<>>
    /\ returned = <<>>
    /\ pc = "run"
    /\ \E tolerance \in ToleranceCells, tolerance_type \in ToleranceTypeCells :
           cmp = [phase |-> "fields", tolerance |-> tolerance,
                  tolerance_type |-> tolerance_type]

\* the rule of the given kind that carries the sheet's tolerance fields
ToleranceRule(kind) ==
    With(With(ReconBase(Txt(kind)), "tolerance", cmp.tolerance),
         "tolerance_type", cmp.tolerance_type)

\* run_all_rules on a sheet of two rules with the same tolerance fields:
\* value_equals, then aggregate_sum or aggregate_avg
ToleranceRunRule(kind) ==
    /\ Len(rules) < 2
    /\ IF rules = <<>> THEN kind = "value_equals"
       ELSE kind \in {"aggregate_sum", "aggregate_avg"}
    /\ ReconRunRule(With(ToleranceRule(kind), "rule_id", Len(rules) + 1))

NextTolerance ==
    \E kind \in {"value_equals", "aggregate_sum", "aggregate_avg"} : ToleranceRunRule(kind)

SpecTolerance == InitTolerance /\ [][NextTolerance]_vars

---------------------------------------------------------------------------
(* One fuzzy_match rule on generated names                                 *)

RobertSmith == <<"R", "o", "b", "e", "r", "t", " ", "S", "m", "i", "t", "h">>
RobertSmyth == <<"R", "o", "b", "e", "r", "t", " ", "S", "m", "y", "t", "h">>

\* the rows of the two files: a key and a name
FuzzyRows1 == {Rec(Num(1), Num(1), Str(Smith)), Rec(Num(2), Num(1), Str(Smith)),
               Rec(Num(1), Num(1), Str(RobertSmith))}
FuzzyRows2 == {Rec(Num(1), Num(1), Str(Smyth)), Rec(Num(2), Num(1), Str(Smyth)),
               Rec(Num(2), Num(1), Str(LowerStr(Smith))),
               Rec(Num(1), Num(1), Str(RobertSmyth))}

\* every frame of at most MaxRows of the given rows
FramesOf(rows) ==
    {[columns |-> FrameColumns, rows |-> r] : r \in UNION {[1..n -> rows] : n \in 0..MaxRows}}

\* fuzzy_match on the name columns, with each tolerance cell of the sheet
FuzzyRules ==
    LET fuz == With(With(ReconBase(Txt("fuzzy_match")), "compare_column_s1", Txt("name")),
                    "compare_column_s2", Txt("name"))
    IN {Without(fuz, "tolerance")}
       \cup {With(fuz, "tolerance", t) : t \in {Null, Num(80), Num(90), Num(95)}}

InitFuzzy ==
    /\ engine = "recon"
    /\ \E df1 \in FramesOf(FuzzyRows1), df2 \in FramesOf(FuzzyRows2) :
           data_sources = Register(Register(<<>>, Source1Name, df1), Source2Name, df2)
    /\ summary = ReconciliationSummary
    /\ rules = <<>>
    /\ returned = <<>>
    /\ pc = "run"
    /\ cmp = NoCompare

\* run_all_rules on a sheet of one fuzzy_match rule
FuzzyRunRule(rule) ==
    /\ rules = <<>>
    /\ ReconRunRule(rule)

NextFuzzy == \E rule \in FuzzyRules : FuzzyRunRule(With(rule, "rule_id", 1))

SpecFuzzy == InitFuzzy /\ [][NextFuzzy]_vars

---------------------------------------------------------------------------
(* One numeric validation rule on generated records                        *)

MaxRecords == 3     \* rows of a generated validation dataset

\* the cells of the checked column: blank, numbers, text that is no number
RecordValues == {Null, Num(-5), Num(0), Num(50), Num(100), Num(150),
                 Str(<<"a", "b", "c">>)}

\* every dataset of at most MaxRecords rows, the i-th with id i
RecordFrames ==
    {[columns |-> FrameColumns,
      rows |-> [i \in 1..n |-> Rec(Num(i), cells[i], Str(Ann))]] :
        n \in 0..MaxRecords, cells \in [1..MaxRecords -> RecordValues]}

\* greater_than 50, less_than 50 and between 0 and 100
RecordRules ==
    {ValidBase("greater_than", Num(50)), ValidBase("less_than", Num(50)),
     With(ValidBase("between", Num(0)), "parameter_2", Num(100))}

InitRecords ==
    /\ engine = "valid"
    /\ \E df \in RecordFrames : data_sources = Register(<<>>, ValidationDataName, df)
    /\ summary = ValidationSummary
    /\ rules = <<>>
    /\ returned = <<>>
    /\ pc = "load"
    /\ cmp = NoCompare

\* the single iteration of run_all_rules on a one-rule sheet
RecordsRunRule(rule) ==
    /\ rules = <<>>
    /\ ValidRunRule(rule)

NextRecords ==
    \/ Start
    \/ \E rule \in RecordRules : RecordsRunRule(With(rule, "rule_id", 1))
    \/ Finish

SpecRecords == InitRecords /\ [][NextRecords]_vars

---------------------------------------------------------------------------
(* One validation rule of any kind on a generated column                   *)

MaxColumn == 4      \* rows of a generated column

LetterA == <<"A">>
LetterB == <<"B">>
LetterC == <<"C">>

\* the cells of the checked column: blank or one of three texts
ColumnValues == {Null, Str(LetterA), Str(LetterB), Str(LetterC)}

\* every dataset of at most MaxColumn rows, the i-th with id i
ColumnFrames ==
    {[columns |-> FrameColumns,
      rows |-> [i \in 1..n |-> Rec(Num(i), cells[i], Str(Ann))]] :
        n \in 0..MaxColumn, cells \in [1..MaxColumn -> ColumnValues]}

\* one rule of each of the nineteen check kinds on the generated column
ColumnRules ==
    {ValidBase(k, Null) : k \in {"not_null", "not_empty", "is_numeric", "is_integer",
                                 "unique"}}
    \cup {ValidBase(k, Num(100)) : k \in {"greater_than", "less_than"}}
    \cup {ValidBase(k, Str(LetterA)) : k \in {"equals", "not_equals"}}
    \cup {ValidBase(k, Str(<<"n", "a", "n">>)) : k \in {"equals", "not_equals"}}
    \cup {ValidBase(k, Str(<<"A", ",", " ", "B">>)) : k \in {"is_in_list", "not_in_list"}}
    \cup {ValidBase(k, Str(LetterB)) : k \in {"starts_with", "ends_with", "contains"}}
    \cup {With(ValidBase("between", Num(100)), "parameter_2", Num(150)),
          ValidBase("regex_match", Txt("[0-9]+")),
          ValidBase("is_date", Txt("YYYY-MM-DD")),
          ValidBase("min_length", Num(2)),
          ValidBase("max_length", Num(0))}

InitColumn ==
    /\ engine = "valid"
    /\ \E df \in ColumnFrames : data_sources = Register(<<>>, ValidationDataName, df)
    /\ summary = ValidationSummary
    /\ rules = <<>>
    /\ returned = <<>>
    /\ pc = "load"
    /\ cmp = NoCompare

\* the single iteration of run_all_rules on a one-rule sheet
ColumnRunRule(rule) ==
    /\ rules = <<>>
    /\ ValidRunRule(rule)

NextColumn ==
    \/ Start
    \/ \E rule \in ColumnRules : ColumnRunRule(With(rule, "rule_id", 1))
    \/ Finish

SpecColumn == InitColumn /\ [][NextColumn]_vars

---------------------------------------------------------------------------
(* One rule whose source references are generated                          *)

\* the source references of a rule sheet
References ==
    {<<>>, Source1File, Source2File, LedgerFile, ValidationDataName \o DotCsv,
     <<"S", "o", "u", "r", "c", "e", "_", "1">> \o DotCsv,
     <<"s", "o", "u", "r", "c", "e", "1", "_", "o", "l", "d">> \o DotCsv,
     <<"f", "i", "l", "e", "1">> \o DotCsv,
     <<"f", "i", "l", "e", "2">> \o DotCsv,
     <<"d", "a", "t", "a">>}

\* The engine has loaded none, the first or both of its files: the first
\* has two rows, the second one row.
InitResolve ==
    /\ engine \in {"recon", "valid"}
    /\ \E n \in 0..2 :
           data_sources =
               SubSeq(Register(Register(<<>>, SourceNames(engine)[1], FrameA),
                               SourceNames(engine)[2], FrameT), 1, n)
    /\ summary = IF engine = "recon" THEN ReconciliationSummary ELSE ValidationSummary
    /\ rules = <<>>
    /\ returned = <<>>
    /\ pc = "load"
    /\ cmp = NoCompare

\* run_all_rules on a sheet of one key_match rule with the two references
ResolveReconRule(ref1, ref2) ==
    /\ rules = <<>>
    /\ ReconRunRule(With(With(With(ReconBase(Txt("key_match")), "source1", Str(ref1)),
                              "source2", Str(ref2)), "rule_id", 1))

\* run_all_rules on a sheet of one not_null rule with the reference
ResolveValidRule(ref) ==
    /\ rules = <<>>
    /\ ValidRunRule(With(With(ValidBase("not_null", Null), "data_source", Str(ref)),
                         "rule_id", 1))

NextResolve ==
    \/ Start
    \/ \E ref1 \in References, ref2 \in References : ResolveReconRule(ref1, ref2)
    \/ \E ref \in References : ResolveValidRule(ref)
    \/ Finish

SpecResolve == InitResolve /\ [][NextResolve]_vars

---------------------------------------------------------------------------
(* Properties of the run (Spec)                                            *)

\* The active cell says true / says false, as a reader of the sheet means it.
FlagTrue(raw) == raw \in {Txt("TRUE"), Txt("true"), Txt("True"), Bool(TRUE)}
FlagFalse(raw) == raw \in {Txt("FALSE"), Txt("false"), Txt("False"), Bool(FALSE)}

\* the Results of the i-th rule in the Summary's result list
ResultsOf(i) == SelectSeq(summary.results, LAMBDA r : r.rule_id = i)

RunEnded == pc \in {"done", "raised"}

\* C1: once run_all_rules has ended, the Summary's result list holds at least
\* one Result for every rule of the list whose active flag is true.  The
\* validation engine violates it: a rule whose check_type is not text makes
\* run_all_rules end with an exception and no Result for that rule.
C1_EveryActiveRuleHasResult ==
    RunEnded => \A i \in 1..Len(rules) : FlagTrue(rules[i].active) => ResultsOf(i) # <<>>

\* C2: no exception raised while a rule is evaluated leaves execute_rule or
\* run_all_rules: every call of execute_rule returns a list.  The validation
\* engine violates it for a check_type that is not text.
C2_NoExceptionEscapes ==
    \A i \in 1..Len(returned) : returned[i].called => ~returned[i].raised

InactiveStep ==
    /\ Len(rules') = Len(rules) + 1
    /\ FlagFalse(rules'[Len(rules')].active)

AllInactive == \A i \in 1..Len(rules) : FlagFalse(rules[i].active)

\* C3: iterating over a rule whose active flag is false calls no evaluation,
\* adds no Result and leaves every field of the Summary as it was; and as
\* long as every rule met so far was inactive, the result list is empty and
\* rules_executed is 0.
C3_InactiveRuleSkipped ==
    /\ [](AllInactive => summary.results = <<>> /\ summary.rules_executed = 0)
    /\ [][InactiveStep => summary' = summary /\ ~returned'[Len(rules')].called]_vars

\* An inactive rule was skipped after an active one was evaluated, and the
\* run has ended.
C3_Witness ==
    /\ pc = "done"
    /\ Len(rules) = 2
    /\ FlagTrue(rules[1].active) /\ returned[1].called
    /\ FlagFalse(rules[2].active) /\ ~returned[2].called
    /\ summary.rules_executed = 1

OnePassOrErrorOrSkip(results) ==
    Len(results) = 1 /\ results[1].status \in {"PASS", "ERROR", "SKIP"}

AllFail(results) ==
    Len(results) >= 1 /\ \A k \in 1..Len(results) : results[k].status = "FAIL"

\* C4: every list an evaluation of a rule returns is one PASS Result, or one
\* ERROR or SKIP Result, or one or more Results that are all FAIL.
C4_ReturnedShape ==
    \A i \in 1..Len(returned) :
        (returned[i].called /\ ~returned[i].raised)
            => OnePassOrErrorOrSkip(returned[i].results) \/ AllFail(returned[i].results)

\* Each shape has been returned: several FAILs by one rule, a lone PASS by
\* another.
C4_Witness ==
    /\ Len(returned) = 2
    /\ returned[1].called /\ AllFail(returned[1].results) /\ Len(returned[1].results) >= 2
    /\ returned[2].called /\ returned[2].results[1].status = "PASS"

\* A step of the loop of run_all_rules: the rule it iterates over, what the
\* call of execute_rule returned, and the Summary's counters apart from
\* rules_executed.
RuleStep == Len(rules') = Len(rules) + 1
NewRule == rules'[Len(rules')]
NewReturn == returned'[Len(returned')]
OtherCountersKept ==
    [summary' EXCEPT !.rules_executed = summary.rules_executed,
                     !.results = summary.results] = summary

\* the check_type cell names none of the engine's check kinds
UnknownKind(cell) ==
    ~(/\ cell.t = "txt"
      /\ LowerAtom(cell.a) \in (IF engine = "recon" THEN ReconKinds ELSE CheckKinds))

OneResult(ret, status) ==
    /\ ret.called /\ ~ret.raised
    /\ Len(ret.results) = 1
    /\ ret.results[1].status = status

\* C16: in both engines an active rule whose check_type is not in the
\* engine's known set returns exactly one Result, of status SKIP and
\* severity WARNING, adds one to rules_executed and leaves rules_passed,
\* rules_failed and every other counter of the Summary as they were.  The
\* validation engine violates it for a check_type cell that is not text
\* (blank, or a number): the exception of C2 leaves execute_rule.
C16_UnknownKindSkipped ==
    [][(RuleStep /\ FlagTrue(NewRule.active) /\ UnknownKind(NewRule.check_type))
          => /\ OneResult(NewReturn, "SKIP")
             /\ NewReturn.results[1].severity = "WARNING"
             /\ summary'.rules_executed = summary.rules_executed + 1
             /\ OtherCountersKept]_vars

\* the frame a source cell of the rule resolves to, if any
Resolved(rule, field) == ReconGetSourceByName(data_sources, SourceRef(rule, field))

\* the column cells a check kind reads, each with the source it is looked up in
UsedColumns(kind) ==
    CASE kind = "key_match" ->
           {<<"source1", "key_column_s1">>, <<"source2", "key_column_s2">>}
      [] kind \in {"value_equals", "fuzzy_match"} ->
           {<<"source1", "key_column_s1">>, <<"source2", "key_column_s2">>,
            <<"source1", "compare_column_s1">>, <<"source2", "compare_column_s2">>}
      [] kind \in {"aggregate_sum", "aggregate_avg"} ->
           {<<"source1", "compare_column_s1">>, <<"source2", "compare_column_s2">>}
      [] OTHER -> {}

\* a source of the rule cannot be resolved, or a column its check kind reads
\* is not in the resolved dataset
MissingReference(rule) ==
    \/ ~Resolved(rule, "source1").found
    \/ ~Resolved(rule, "source2").found
    \/ \E u \in UsedColumns(ReconCheckType(rule)) :
           ColRef(rule, u[2]) \notin Columns(Resolved(rule, u[1]).df)

\* C17: an active reconciliation rule of any of the six check kinds that
\* references a data source that cannot be resolved, or a key or compare
\* column that is not in its dataset, returns exactly one ERROR Result, is
\* counted in rules_executed and in neither rules_passed nor rules_failed.
\* It is stated for rules whose tolerance cell is blank or a number.  The
\* code violates it for aggregate_avg with a missing compare column: the one
\* ERROR Result comes from the except clause, which does not count the rule
\* as executed.
C17_MissingReferenceIsError ==
    [][(/\ RuleStep /\ engine = "recon" /\ FlagTrue(NewRule.active)
        /\ ReconCheckType(NewRule.row) \in ReconKinds
        /\ FuzzyTolerance(NewRule.row).ok
        /\ MissingReference(NewRule.row))
          => /\ OneResult(NewReturn, "ERROR")
             /\ summary'.rules_executed = summary.rules_executed + 1
             /\ summary'.rules_passed = summary.rules_passed
             /\ summary'.rules_failed = summary.rules_failed]_vars

\* the check kind a validation rule names, for a check_type cell that is text
ValidKind(rule) == LowerAtom(Get(rule, "check_type", Txt("")).a)

\* the data source cell of the rule is text that names no loaded dataset
SourceUnresolved(rule) ==
    /\ ~ValidGetSourceByName(data_sources, Get(rule, "data_source", Str(<<>>))).raised
    /\ ~ValidGetSourceByName(data_sources, Get(rule, "data_source", Str(<<>>))).found

\* the data source resolves and the column of the rule is not in it
ColumnMissing(rule) ==
    /\ ValidGetSourceByName(data_sources, Get(rule, "data_source", Str(<<>>))).found
    /\ AtomStr(Get(rule, "column", Txt("")))
          \notin Columns(ValidGetSourceByName(data_sources,
                                             Get(rule, "data_source", Str(<<>>))).df)

\* C18: in the validation engine an active rule of a known check kind whose
\* data source cannot be resolved, or whose column is not in the resolved
\* dataset, returns exactly one ERROR Result, adds one to rules_executed and
\* changes neither rules_passed nor rules_failed.  It is stated for rules
\* whose parameters convert.  The code violates it for a missing column:
\* df[column] raises KeyError, the one ERROR Result comes from the except
\* clause and the rule is not counted as executed; on an empty dataset most
\* kinds return PASS.
C18_ValidMissingReferenceIsError ==
    [][(/\ RuleStep /\ engine = "valid" /\ FlagTrue(NewRule.active)
        /\ NewRule.check_type.t = "txt"
        /\ ValidKind(NewRule.row) \in CheckKinds
        /\ ~ParamsRaise(ValidKind(NewRule.row), NewRule.row)
        /\ (SourceUnresolved(NewRule.row) \/ ColumnMissing(NewRule.row)))
          => /\ OneResult(NewReturn, "ERROR")
             /\ summary'.rules_executed = summary.rules_executed + 1
             /\ summary'.rules_passed = summary.rules_passed
             /\ summary'.rules_failed = summary.rules_failed]_vars

---------------------------------------------------------------------------
(* Properties of the Summary after a run (Spec)                            *)

ValidationDone == engine = "valid" /\ pc = "done"

\* the severity cell of the i-th rule of the list, as the checks read it
RuleSeverity(i) == AtomStr(Get(rules[i].row, "severity", Txt("ERROR")))

\* the FAIL Results of the Summary
FailResultsOfRun == SelectSeq(summary.results, LAMBDA r : r.status = "FAIL")

\* those of them that rules of the given severity produced
FailsOfSeverity(severity) ==
    SelectSeq(FailResultsOfRun, LAMBDA r : RuleSeverity(r.rule_id) = severity)

\* C22: after a validation run records_with_errors is the number of FAIL
\* Results that rules of severity ERROR produced and records_with_warnings
\* the number that rules of severity WARNING produced, counted per Result;
\* the FAIL Results of INFO rules are in neither.  The code violates the last
\* part: every severity other than ERROR is counted as a warning.
C22_FailsBySeverity ==
    ValidationDone =>
        /\ summary.records_with_errors = Len(FailsOfSeverity("ERROR"))
        /\ summary.records_with_warnings = Len(FailsOfSeverity("WARNING"))

\* the distinct record keys of the Summary's FAIL Results
FailedRecordKeys == {FailResultsOfRun[k].record_key : k \in 1..Len(FailResultsOfRun)}

\* the row count of the dataset registered first (0 without a dataset)
FirstDatasetRows == IF data_sources = <<>> THEN 0 ELSE Len(data_sources[1].df.rows)

\* C23: when ValidationEngine.run_all_rules returns, records_passed is
\* total_records minus the number of distinct record keys among the FAIL
\* Results of the Summary, total_records being the row count of the dataset
\* registered first; it is computed once, after the loop: no rule evaluation
\* changes it, and it is still 0 while the rules run.
C23_RecordsPassed ==
    /\ [](ValidationDone =>
            /\ summary.total_records = FirstDatasetRows
            /\ summary.records_passed
                  = summary.total_records - Cardinality(FailedRecordKeys))
    /\ []((engine = "valid" /\ pc = "run") => summary.records_passed = 0)
    /\ [][(engine = "valid" /\ RuleStep)
             => summary'.records_passed = summary.records_passed]_vars

\* a run on a dataset of two records has ended with two FAIL Results that
\* carry the same record key: one record is counted as failed, one as passed
C23_Witness ==
    /\ ValidationDone
    /\ summary.total_records = 2
    /\ Len(FailResultsOfRun) = 2
    /\ Cardinality(FailedRecordKeys) = 1
    /\ summary.records_passed = 1

\* the counters of a Summary, without its result list
Counters(S) == [S EXCEPT !.results = <<>>]

\* a reconciliation run has iterated over a list of two active rules
TwoActiveRules ==
    /\ engine = "recon"
    /\ Len(rules) = 2
    /\ IsActive(rules[1].row) /\ IsActive(rules[2].row)

\* the same two rules on a fresh engine with the same datasets, the second
\* rule of the list first: what each rule returns and the final Summary
SwappedRun ==
    LET first == ReconExecuteRule(rules[2].row, ReconciliationSummary, data_sources)
        second == ReconExecuteRule(rules[1].row, first.summary, data_sources)
    IN [of1 |-> second.results, of2 |-> first.results, summary |-> second.summary]

\* C24: rules are independent.  The same active rules evaluated in the other
\* order on a fresh engine with the same datasets give the same Results for
\* each rule and the same final counters, total_records_source1/2,
\* matched_records and unmatched_source1/2 included; the Summary's list
\* holds each rule's Results contiguously, in list order.  It is stated for
\* the reconciliation engine, which violates it for two key_match rules:
\* each overwrites the five key counters, so the rule evaluated last wins.
C24_OrderIndependent ==
    TwoActiveRules =>
        /\ returned[1].results = SwappedRun.of1
        /\ returned[2].results = SwappedRun.of2
        /\ Counters(summary) = Counters(SwappedRun.summary)
        /\ summary.results = returned[1].results \o returned[2].results

\* rules i and j of the list are the same row of the sheet; the list gives
\* each of them its own rule_id, which the Results carry
SameRule(i, j) == With(rules[i].row, "rule_id", 0) = With(rules[j].row, "rule_id", 0)

Relabelled(results) == [k \in 1..Len(results) |-> [results[k] EXCEPT !.rule_id = 0]]

BothReturned(i, j) ==
    /\ returned[i].called /\ ~returned[i].raised
    /\ returned[j].called /\ ~returned[j].raised

C27_PassedFailedWithinExecuted ==
    summary.rules_passed + summary.rules_failed <= summary.rules_executed

\* C28: when ValidationEngine.run_all_rules returns, whatever datasets are
\* registered and whatever the rule list, 0 <= records_passed <=
\* total_records.  The code violates it with two datasets: the keys of the
\* records that fail in the second dataset are subtracted from the row
\* count of the first.
C28_RecordsPassedInRange ==
    ValidationDone =>
        /\ 0 <= summary.records_passed
        /\ summary.records_passed <= summary.total_records

---------------------------------------------------------------------------
(* Properties of key_match and value_equals (SpecData)                     *)

Rows1 == data_sources[1].df.rows
Rows2 == data_sources[2].df.rows

\* keys(D1), keys(D2): the values of the key column, as strings
Keys1 == {ToStr(Rows1[i].id) : i \in 1..Len(Rows1)}
Keys2 == {ToStr(Rows2[j].id) : j \in 1..Len(Rows2)}

Ran(kind) == Len(rules) = 1 /\ rules[1].check_type = Txt(kind)

\* the keys the returned FAIL Results report with the given difference
Reported(difference) ==
    {returned[1].results[k].record_key.s :
        k \in {m \in 1..Len(returned[1].results) :
                  /\ returned[1].results[m].status = "FAIL"
                  /\ returned[1].results[m].difference = Txt(difference)}}

\* C5: after key_match the keys reported as only in source 1, those reported
\* as only in source 2 and the remaining (matched) keys partition
\* keys(D1) \cup keys(D2), and the Summary's matched_records,
\* unmatched_source1 and unmatched_source2 are the sizes of the three parts,
\* which add up to the size of the union.
C5_KeyMatchPartition ==
    Ran("key_match") =>
        /\ Reported("Missing in Source 2") = Keys1 \ Keys2
        /\ Reported("Missing in Source 1") = Keys2 \ Keys1
        /\ Reported("Missing in Source 2") \cap Reported("Missing in Source 1") = {}
        /\ summary.matched_records = Cardinality(Keys1 \cap Keys2)
        /\ summary.unmatched_source1 = Cardinality(Keys1 \ Keys2)
        /\ summary.unmatched_source2 = Cardinality(Keys2 \ Keys1)
        /\ summary.matched_records + summary.unmatched_source1
             + summary.unmatched_source2 = Cardinality(Keys1 \cup Keys2)

\* key_match has run on frames with a matched key, a key only in source 1 and
\* a key only in source 2.
C5_Witness ==
    /\ Ran("key_match")
    /\ summary.matched_records >= 1
    /\ summary.unmatched_source1 >= 1
    /\ summary.unmatched_source2 >= 1

CountWhere(results, P(_)) == Len(SelectSeq(results, P))

\* C6: key_match returns exactly one FAIL Result "Missing in Source 2" per
\* key only in source 1 and exactly one "Missing in Source 1" per key only in
\* source 2, and nothing else; with no such key it returns one PASS Result
\* that reports the number of matched keys and counts the rule as passed;
\* otherwise it counts the rule as failed once.
C6_KeyMatchResults ==
    Ran("key_match") =>
        LET results == returned[1].results
            fails(key, difference) ==
                CountWhere(results, LAMBDA r : /\ r.status = "FAIL"
                                               /\ r.record_key = Str(key)
                                               /\ r.difference = Txt(difference))
        IN IF Keys1 = Keys2
           THEN /\ Len(results) = 1
                /\ results[1].status = "PASS"
                /\ results[1].details.arg = Cardinality(Keys1 \cap Keys2)
                /\ summary.rules_passed = 1 /\ summary.rules_failed = 0
           ELSE /\ \A key \in Keys1 \ Keys2 : fails(key, "Missing in Source 2") = 1
                /\ \A key \in Keys2 \ Keys1 : fails(key, "Missing in Source 1") = 1
                /\ Len(results) = Cardinality(Keys1 \ Keys2) + Cardinality(Keys2 \ Keys1)
                /\ summary.rules_passed = 0 /\ summary.rules_failed = 1

\* key_match has returned FAILs of both differences, three or more in all.
C6_Witness ==
    /\ Ran("key_match")
    /\ Reported("Missing in Source 2") # {}
    /\ Reported("Missing in Source 1") # {}
    /\ Len(returned[1].results) >= 3
    /\ summary.rules_failed = 1

\* the pairs of rows that an inner join on the key column pairs up
Joined == {p \in (1..Len(Rows1)) \X (1..Len(Rows2)) : Rows1[p[1]].id = Rows2[p[2]].id}

\* what ValueComparator says of a joined pair under the rule's tolerance
PairMatches(p) ==
    _compare_values(Rows1[p[1]].amount, Rows2[p[2]].amount,
        IF notna(rules[1].tolerance) THEN ToStr(rules[1].tolerance) ELSE <<>>,
        IF notna(rules[1].tolerance_type) THEN rules[1].tolerance_type.a ELSE "").match

Mismatching == {p \in Joined : ~PairMatches(p)}

\* C7: value_equals returns no Result for a key that is on one side only, as
\* many FAIL Results as there are joined pairs that the comparator reports as
\* not matching, each of them carrying its pair's key and values, and one
\* PASS Result when no joined pair mismatches (an empty join included).
C7_ValueEqualsInnerJoin ==
    Ran("value_equals") =>
        LET results == returned[1].results
            of(p) == SelectSeq(results,
                         LAMBDA r : /\ r.status = "FAIL"
                                    /\ r.record_key = Str(ToStr(Rows1[p[1]].id))
                                    /\ r.source1_value = Str(ToStr(Rows1[p[1]].amount))
                                    /\ r.source2_value = Str(ToStr(Rows2[p[2]].amount)))
        IN /\ \A k \in 1..Len(results) :
                 results[k].status = "FAIL"
                     => results[k].record_key.s \in Keys1 \cap Keys2
           /\ IF Mismatching = {}
              THEN Len(results) = 1 /\ results[1].status = "PASS"
              ELSE /\ Len(results) = Cardinality(Mismatching)
                   /\ \A p \in Mismatching : of(p) # <<>>
                   /\ \A k \in 1..Len(results) : results[k].status = "FAIL"

\* value_equals has run on frames with a key on one side only, a joined pair
\* that matches and one that does not.
C7_Witness ==
    /\ Ran("value_equals")
    /\ Keys1 # Keys2
    /\ Mismatching # {}
    /\ Mismatching # Joined
    /\ Len(returned[1].results) = Cardinality(Mismatching)

\* C15: on two resolvable datasets aggregate_count returns exactly one
\* Result, whose difference is count1 - count2 with its sign, whatever the
\* key and compare columns of the rule; the Result is PASS exactly when the
\* two row counts are equal, and the rule is counted in rules_passed on PASS
\* and in rules_failed otherwise.
C15_AggregateCount ==
    Ran("aggregate_count") =>
        LET results == returned[1].results
            equal == Len(Rows1) = Len(Rows2)
        IN /\ Len(results) = 1
           /\ results[1].difference = Str(IntStr(Len(Rows1) - Len(Rows2)))
           /\ results[1].status = IF equal THEN "PASS" ELSE "FAIL"
           /\ summary.rules_passed = IF equal THEN 1 ELSE 0
           /\ summary.rules_failed = IF equal THEN 0 ELSE 1

\* aggregate_count has run on a first file with fewer rows than the second:
\* the difference is negative and the rule has failed.
C15_Witness ==
    /\ Ran("aggregate_count")
    /\ Len(Rows1) < Len(Rows2)
    /\ returned[1].results[1].difference = Str(<<"-", "1">>)
    /\ returned[1].results[1].status = "FAIL"
    /\ summary.rules_failed = 1

---------------------------------------------------------------------------
(* Properties of the comparator (SpecCompare)                              *)

Returned == cmp.phase = "return"

\* both values are numbers or numeric text, and the tolerance is a number
NumericCall ==
    /\ ToFloat(cmp.val1).ok /\ ToFloat(cmp.val2).ok
    /\ cmp.tolerance # <<>> /\ ParseFloat(cmp.tolerance).ok

\* the integers the call is about
IntOf1 == ToFloat(cmp.val1).q.n
IntOf2 == ToFloat(cmp.val2).q.n
IntTolerance == ParseFloat(cmp.tolerance).q.n

\* C8: whatever the tolerance and its type, two null values compare as
\* (match, 0), and a null value with one that is not null compares as
\* (no match, "NULL mismatch").
C8_NullHandling ==
    Returned =>
        /\ (cmp.val1 = Null /\ cmp.val2 = Null)
               => cmp.out = [match |-> TRUE, diff |-> Num(0)]
        /\ ((cmp.val1 = Null) # (cmp.val2 = Null))
               => cmp.out = [match |-> FALSE, diff |-> Txt("NULL mismatch")]

\* A null value was compared with a number under a percentage tolerance.
C8_Witness ==
    /\ Returned
    /\ cmp.val1 = Null /\ cmp.val2 = Num(1)
    /\ cmp.tolerance_type = "percentage" /\ cmp.tolerance = <<"5", "0">>
    /\ ~cmp.out.match

\* C9: under a percentage tolerance two numeric values match exactly when
\* (|num1 - num2| / |num1|) * 100 <= tolerance if num1 is not 0, and exactly
\* when num2 is 0 if num1 is 0: the base of the percentage is value1.
C9_Percentage ==
    (Returned /\ cmp.tolerance_type = "percentage" /\ NumericCall) =>
        (cmp.out.match <=>
            IF IntOf1 # 0
            THEN Abs(IntOf1 - IntOf2) * 100 <= IntTolerance * Abs(IntOf1)
            ELSE IntOf2 = 0)

\* A percentage comparison did not match although the difference is within
\* the tolerance when taken relative to value2.
C9_Witness ==
    /\ Returned /\ cmp.tolerance_type = "percentage" /\ NumericCall
    /\ IntOf1 # 0
    /\ ~cmp.out.match
    /\ Abs(IntOf1 - IntOf2) * 100 <= IntTolerance * Abs(IntOf2)

\* C10: under an absolute tolerance, swapping the two numeric values changes
\* neither the verdict nor the difference; under a percentage tolerance it
\* can change the verdict: compare(1, 2, 50) does not match, compare(2, 1, 50)
\* does.
C10_SwapSymmetry ==
    /\ (Returned /\ cmp.tolerance_type = "absolute" /\ NumericCall)
           => cmp.out = cmp.swapped
    /\ ~_compare_values(Num(1), Num(2), <<"5", "0">>, "percentage").match
    /\ _compare_values(Num(2), Num(1), <<"5", "0">>, "percentage").match

\* A percentage comparison whose verdict changed when its values were swapped.
C10_Witness ==
    /\ Returned /\ cmp.tolerance_type = "percentage" /\ NumericCall
    /\ cmp.out.match # cmp.swapped.match

\* both values are numbers or numeric text
NumericValues == ToFloat(cmp.val1).ok /\ ToFloat(cmp.val2).ok

\* C11: on two numeric values, under a tolerance of type absolute or days the
\* values match exactly when |num1 - num2| <= tolerance, a tolerance of 0
\* included (it then means equality); with no tolerance, with no tolerance
\* type, or with a tolerance of a type that is none of percentage, absolute
\* and days, they match exactly when num1 = num2.
C11_AbsoluteDaysExact ==
    (Returned /\ NumericValues) =>
        /\ (cmp.tolerance_type \in {"absolute", "days"} /\ NumericCall)
               => (cmp.out.match <=> Abs(IntOf1 - IntOf2) <= IntTolerance)
        /\ (\/ cmp.tolerance = <<>>
            \/ cmp.tolerance_type = ""
            \/ (cmp.tolerance_type \notin {"percentage", "absolute", "days"}
                  /\ NumericCall))
               => (cmp.out.match <=> IntOf1 = IntOf2)

\* Two different numbers were compared under a days tolerance of 0 and did
\* not match.
C11_Witness ==
    /\ Returned /\ NumericValues
    /\ cmp.tolerance_type = "days" /\ cmp.tolerance = <<"0">>
    /\ IntOf1 # IntOf2
    /\ ~cmp.out.match

---------------------------------------------------------------------------
(* Properties of the shared tolerance (SpecTolerance)                      *)

\* the verdict of the i-th rule of the sheet on the two numbers
Verdict(i) == returned[i].results[1].status

\* the sheet gives a tolerance and a tolerance type
FieldsGiven == notna(cmp.tolerance) /\ notna(cmp.tolerance_type)

\* C12: for the same two numbers and the same tolerance and tolerance_type
\* cells, in whatever letter case the type is written, value_equals and
\* aggregate_sum / aggregate_avg reach the same verdict.  The code violates
\* it: value_equals lower-cases the type, the aggregates do not.
C12_SameToleranceSemantics ==
    (Len(returned) = 2 /\ FieldsGiven) => Verdict(1) = Verdict(2)

---------------------------------------------------------------------------
(* Properties of fuzzy_match (SpecFuzzy)                                   *)

\* the threshold of the rule as a score out of 100: its tolerance, or 80
\* when the rule gives none
Score == IF rules[1].tolerance.t = "num" THEN rules[1].tolerance.n ELSE 80

\* 2 * M / T of the two names of a joined pair, letter case set aside
Similarity(p) == Ratio(LowerStr(Rows1[p[1]].name.s), LowerStr(Rows2[p[2]].name.s))

\* the joined pairs whose similarity is strictly below the threshold
Below == {p \in Joined : Similarity(p).n * 100 < Score * Similarity(p).d}

\* C13: fuzzy_match pairs the rows by the inner join of value_equals and
\* returns one FAIL Result of severity WARNING for exactly the joined pairs
\* whose case-insensitive similarity is strictly below tolerance / 100 (0.80
\* for a rule without tolerance), so none for a pair at the threshold; when
\* no pair is below it returns exactly one PASS Result.
C13_FuzzyMatch ==
    Ran("fuzzy_match") =>
        LET results == returned[1].results
            of(p) == SelectSeq(results,
                         LAMBDA r : /\ r.status = "FAIL"
                                    /\ r.record_key = Str(ToStr(Rows1[p[1]].id))
                                    /\ r.source1_value = Rows1[p[1]].name
                                    /\ r.source2_value = Rows2[p[2]].name)
        IN IF Below = {}
           THEN Len(results) = 1 /\ results[1].status = "PASS"
           ELSE /\ Len(results) = Cardinality(Below)
                /\ \A p \in Below : of(p) # <<>>
                /\ \A k \in 1..Len(results) :
                       results[k].status = "FAIL" /\ results[k].severity = "WARNING"

\* fuzzy_match has failed one joined pair and let pass another whose
\* similarity is exactly the threshold.
C13_Witness ==
    /\ Ran("fuzzy_match")
    /\ Below # {}
    /\ \E p \in Joined : Similarity(p).n * 100 = Score * Similarity(p).d
    /\ Len(returned[1].results) = Cardinality(Below)
    /\ returned[1].results[1].status = "FAIL"

\* the two files hold one row each: "Robert Smith" and "Robert Smyth" under
\* the same key
RobertPair ==
    /\ Len(Rows1) = 1 /\ Len(Rows2) = 1
    /\ Rows1[1].id = Rows2[1].id
    /\ Rows1[1].name = Str(RobertSmith) /\ Rows2[1].name = Str(RobertSmyth)

\* similarity("Robert Smith", "Robert Smyth") > 0.85
RobertAbove85 ==
    LET r == Ratio(LowerStr(RobertSmith), LowerStr(RobertSmyth)) IN 85 * r.d < 100 * r.n

\* C14 as stated: the similarity of "Robert Smith" and "Robert Smyth" is
\* above 0.85 and fuzzy_match with threshold 90 returns a FAIL Result for
\* the pair.  The code returns PASS: the similarity is 22/24, above 0.90.
C14_RobertFailsAt90 ==
    (Ran("fuzzy_match") /\ RobertPair /\ Score = 90) =>
        RobertAbove85 /\ returned[1].results[1].status = "FAIL"

\* C14 amended: the similarity of "Robert Smith" and "Robert Smyth" is 22/24,
\* above 0.85 and not below 0.90: fuzzy_match with threshold 90 returns one
\* PASS Result for the pair, and with threshold 95 one FAIL Result.
C14_RobertPassesAt90 ==
    (Ran("fuzzy_match") /\ RobertPair) =>
        /\ RobertAbove85
        /\ Ratio(LowerStr(RobertSmith), LowerStr(RobertSmyth)) = Q(22, 24)
        /\ Len(returned[1].results) = 1
        /\ Score = 90 => returned[1].results[1].status = "PASS"
        /\ Score = 95 => returned[1].results[1].status = "FAIL"

\* fuzzy_match with threshold 90 has run on the pair and returned PASS.
C14_Witness ==
    /\ Ran("fuzzy_match") /\ RobertPair /\ Score = 90
    /\ returned[1].results[1].status = "PASS"

---------------------------------------------------------------------------
(* Properties of the numeric validation checks (SpecRecords)               *)

Records == data_sources[1].df.rows

\* the record keys of the FAIL Results the rule returned
FailedKeys ==
    {returned[1].results[k].record_key :
        k \in {m \in 1..Len(returned[1].results) : returned[1].results[m].status = "FAIL"}}

Failed(i) == Str(ToStr(Records[i].id)) \in FailedKeys

\* the value of record i is a number / is neither blank nor a number
Numeric(i) == Records[i].amount.t = "num"
NonNumeric(i) == Records[i].amount.t = "str" /\ ~ParseFloat(Records[i].amount.s).ok

\* the bounds the rule carries
Parameter1 == rules[1].row.parameter_1.n
Parameter2 == rules[1].row.parameter_2.n

\* C19: greater_than, less_than and between return a FAIL Result for every
\* record whose value is not blank and cannot be read as a number;
\* greater_than fails a number exactly when it is <= the threshold and
\* less_than exactly when it is >= the threshold.  less_than and between
\* violate the first part: they skip such a record without a Result.
C19_NonNumericFails ==
    (Len(rules) = 1 /\ ValidKind(rules[1].row) \in {"greater_than", "less_than", "between"})
        => /\ \A i \in 1..Len(Records) : NonNumeric(i) => Failed(i)
           /\ ValidKind(rules[1].row) = "greater_than"
                 => \A i \in 1..Len(Records) :
                        Numeric(i) => (Failed(i) <=> Records[i].amount.n <= Parameter1)
           /\ ValidKind(rules[1].row) = "less_than"
                 => \A i \in 1..Len(Records) :
                        Numeric(i) => (Failed(i) <=> Records[i].amount.n >= Parameter1)

\* the records a between rule is to fail: the numbers outside its bounds
OutOfRange ==
    {i \in 1..Len(Records) :
        Numeric(i) /\ (Records[i].amount.n < Parameter1 \/ Records[i].amount.n > Parameter2)}

\* C20: a between rule returns a FAIL Result for exactly the records whose
\* number is below parameter_1 or above parameter_2, so a number equal to a
\* bound passes; when a record fails the returned list holds these FAIL
\* Results and no PASS Result: -5, 50, 150 under the bounds 0 and 100 give
\* two FAIL Results and no PASS.
C20_BetweenInclusive ==
    (Len(rules) = 1 /\ ValidKind(rules[1].row) = "between") =>
        /\ \A i \in 1..Len(Records) : Failed(i) <=> i \in OutOfRange
        /\ OutOfRange # {}
              => /\ Len(returned[1].results) = Cardinality(OutOfRange)
                 /\ \A k \in 1..Len(returned[1].results) :
                        returned[1].results[k].status = "FAIL"
        /\ OutOfRange = {}
              => Len(returned[1].results) = 1 /\ returned[1].results[1].status = "PASS"

\* between 0 and 100 has run on the records -5, 50, 150 and returned two
\* FAIL Results, for the first and the third record.
C20_Witness ==
    /\ Len(rules) = 1 /\ ValidKind(rules[1].row) = "between"
    /\ Parameter1 = 0 /\ Parameter2 = 100
    /\ Len(Records) = 3
    /\ Records[1].amount = Num(-5) /\ Records[2].amount = Num(50)
    /\ Records[3].amount = Num(150)
    /\ Len(returned[1].results) = 2
    /\ FailedKeys = {Str(<<"1">>), Str(<<"3">>)}
    /\ pc = "done"

---------------------------------------------------------------------------
(* Properties of the checks on one column (SpecColumn)                     *)

\* the rule of the one-rule sheet has been evaluated, and is of this kind
RanCheck(kind) == Len(rules) = 1 /\ ValidKind(rules[1].row) = kind

\* the FAIL Results the rule returned
Fails == SelectSeq(returned[1].results, LAMBDA r : r.status = "FAIL")

\* the FAIL Results that carry the key of record i
FailsOf(i) == SelectSeq(Fails, LAMBDA r : r.record_key = Str(ToStr(Records[i].id)))

\* the records whose value another record of the column carries too (two
\* blank cells carry the same value)
Repeated ==
    {i \in 1..Len(Records) :
        \E j \in 1..Len(Records) : j # i /\ Records[j].amount = Records[i].amount}

\* C21: a unique rule returns one FAIL Result for every record whose value
\* occurs more than once in the column, the first occurrence included, and
\* none for a record whose value occurs once: the number of FAIL Results is
\* the number of records that carry a repeated value.
C21_UniqueFailsEveryOccurrence ==
    RanCheck("unique") =>
        /\ \A i \in 1..Len(Records) :
               Len(FailsOf(i)) = IF i \in Repeated THEN 1 ELSE 0
        /\ Len(Fails) = Cardinality(Repeated)
        /\ Repeated = {} => Len(returned[1].results) = 1
                            /\ returned[1].results[1].status = "PASS"

\* unique has run on the column A, B, A, C and returned exactly two FAIL
\* Results, for the first and the third record.
C21_Witness ==
    /\ RanCheck("unique")
    /\ Len(Records) = 4
    /\ Records[1].amount = Str(LetterA) /\ Records[2].amount = Str(LetterB)
    /\ Records[3].amount = Str(LetterA) /\ Records[4].amount = Str(LetterC)
    /\ Len(returned[1].results) = 2
    /\ FailedKeys = {Str(<<"1">>), Str(<<"3">>)}

\* the check kinds that let a blank cell pass
NullSafeKinds ==
    {"greater_than", "less_than", "between", "is_in_list", "not_in_list", "regex_match",
     "is_date", "is_numeric", "is_integer", "min_length", "max_length", "starts_with",
     "ends_with", "contains"}

\* the cell of record i is blank
Blank(i) == isna(Records[i].amount)

\* parameter_1 of the rule is the text that str() gives a blank cell
ParameterIsNan == Strip(ToStr(rules[1].row.parameter_1)) = <<"n", "a", "n">>

\* C30: under greater_than, less_than, between, is_in_list, not_in_list,
\* regex_match, is_date, is_numeric, is_integer, min_length, max_length,
\* starts_with, ends_with and contains a record whose value is blank gets no
\* FAIL Result.  A blank value fails under not_null and not_empty; under
\* equals and not_equals it is compared as the text "nan", and under unique
\* it fails exactly when another record is blank too.
C30_NullNeverFails ==
    Len(rules) = 1 =>
        \A i \in 1..Len(Records) :
            Blank(i) =>
                /\ ValidKind(rules[1].row) \in NullSafeKinds => ~Failed(i)
                /\ ValidKind(rules[1].row) \in {"not_null", "not_empty"} => Failed(i)
                /\ ValidKind(rules[1].row) = "equals" => (Failed(i) <=> ~ParameterIsNan)
                /\ ValidKind(rules[1].row) = "not_equals" => (Failed(i) <=> ParameterIsNan)
                /\ ValidKind(rules[1].row) = "unique"
                      => (Failed(i) <=> \E j \in 1..Len(Records) : j # i /\ Blank(j))

\* a rule of one of the fourteen kinds has failed a record that carries a
\* value and has returned no Result for a blank record of the same column
C30_Witness ==
    /\ Len(rules) = 1
    /\ ValidKind(rules[1].row) \in NullSafeKinds
    /\ \E i, j \in 1..Len(Records) : Blank(i) /\ ~Failed(i) /\ ~Blank(j) /\ Failed(j)
    /\ pc = "done"

---------------------------------------------------------------------------
(* Properties of the source resolution (SpecResolve)                       *)

\* a reference without its file extension and separators, in lower case
Normalized(ref) == Remove(Remove(LowerStr(ref), DotCsv), Underscore)

\* the registered datasets whose name contains the reference or is
\* contained in it
Containing(ref) ==
    {i \in 1..Len(data_sources) :
        \/ Contains(Normalized(data_sources[i].name), Normalized(ref))
        \/ Contains(Normalized(ref), Normalized(data_sources[i].name))}

\* the datasets a reference may resolve to; none: "not found"
Resolves(ref) ==
    IF Containing(ref) # {} THEN Containing(ref)
    ELSE IF Contains(Normalized(ref), <<"1">>) /\ Len(data_sources) >= 1 THEN {1}
    ELSE IF Contains(Normalized(ref), <<"2">>) /\ Len(data_sources) >= 2 THEN {2}
    ELSE {}

RowCounts(ref) == {Len(data_sources[i].df.rows) : i \in Resolves(ref)}

\* C26: in both engines a source reference resolves when, without its
\* extension, it contains a registered name or a registered name contains
\* it; otherwise a reference containing "1" resolves to the first source and
\* one containing "2" to the second; any other reference is "not found",
\* which is no exception and gives one ERROR Result.  What a rule resolved
\* to is read off the row count it reports.  The validation engine violates
\* it: it only finds a reference that a registered name contains.
C26_SourceResolution ==
    Len(rules) = 1 =>
        /\ ~returned[1].raised
        /\ engine = "recon" =>
              IF Resolves(rules[1].row.source1.s) = {}
                 \/ Resolves(rules[1].row.source2.s) = {}
              THEN OneResult(returned[1], "ERROR")
              ELSE /\ returned[1].results[1].status # "ERROR"
                   /\ summary.total_records_source1 \in RowCounts(rules[1].row.source1.s)
                   /\ summary.total_records_source2 \in RowCounts(rules[1].row.source2.s)
        /\ engine = "valid" =>
              IF Resolves(rules[1].row.data_source.s) = {}
              THEN OneResult(returned[1], "ERROR")
              ELSE /\ OneResult(returned[1], "PASS")
                   /\ returned[1].results[1].value.arg
                         \in RowCounts(rules[1].row.data_source.s)

---------------------------------------------------------------------------
(* Properties of key_match and the joins on the same keys (Spec)           *)

\* the i-th rule of the list is an active rule on the two loaded files that
\* takes the id columns as keys
OnIds(i) ==
    /\ engine = "recon" /\ Len(data_sources) = 2
    /\ IsActive(rules[i].row)
    /\ rules[i].row.source1 = Str(Source1File) /\ rules[i].row.source2 = Str(Source2File)
    /\ rules[i].row.key_column_s1 = Txt("id") /\ rules[i].row.key_column_s2 = Txt("id")

\* it is a value_equals or fuzzy_match rule whose compare columns exist and
\* whose tolerance is blank or a number
JoinsOnIds(j) ==
    /\ OnIds(j)
    /\ rules[j].check_type \in {Txt("value_equals"), Txt("fuzzy_match")}
    /\ rules[j].row.compare_column_s1 \in {Txt("amount"), Txt("name")}
    /\ rules[j].row.compare_column_s2 \in {Txt("amount"), Txt("name")}
    /\ FuzzyTolerance(rules[j].row).ok

\* C29: key_match and value_equals (and fuzzy_match) agree on the keys that
\* are common to the two datasets.  After a key_match rule and a join rule
\* on the same datasets and key columns, matched_records is the number of
\* common keys, the join rule has no ERROR Result, reports FAIL only for
\* common keys and has joined no pair exactly when no key is common.  The
\* code violates it when a key is a number on one side and text on the
\* other: key_match counts it as matched, the join raises.
C29_SameCommonKeys ==
    \A i, j \in 1..Len(rules) :
        (OnIds(i) /\ rules[i].check_type = Txt("key_match") /\ JoinsOnIds(j)) =>
            LET results == returned[j].results
            IN /\ summary.matched_records = Cardinality(Keys1 \cap Keys2)
               /\ \A k \in 1..Len(results) :
                      /\ results[k].status # "ERROR"
                      /\ results[k].status = "FAIL"
                            => results[k].record_key.s \in Keys1 \cap Keys2
               /\ results[1].status = "PASS"
                     => (results[1].source1_value.arg = 0 <=> Keys1 \cap Keys2 = {})

===========================================================================
